---- MODULE Spec2Model ----
(***************************************************************************)
(* A model of the MoveMaster pricing engine                                *)
(* (backend/app/services/pricing_engine.py) and of the construction of     *)
(* its rate configuration from the global settings                         *)
(* (backend/app/core/config.py).                                           *)
(*                                                                         *)
(* The engine computes with Python's decimal.Decimal.  A Decimal is        *)
(* modelled exactly, as a sign, a magnitude held in base-10000 limbs       *)
(* (least significant first) and the number of limbs after the decimal     *)
(* point; every value is kept in canonical form, so that = on two          *)
(* Decimals is numeric equality.  Strings the code slices or searches      *)
(* (postal codes, item names) are sequences of characters.                 *)
(***************************************************************************)
EXTENDS Integers, Sequences, FiniteSets, TLC

(***************************************************************************)
(* decimal.Decimal                                                         *)
(***************************************************************************)
Base == 10000

Zeros(n) == [i \in 1..n |-> 0]

Abs(n) == IF n < 0 THEN -n ELSE n

RECURSIVE TrimHi(_)
TrimHi(m) == IF m = <<>> THEN m
             ELSE IF m[Len(m)] = 0 THEN TrimHi(SubSeq(m, 1, Len(m) - 1)) ELSE m

RECURSIVE AddMag(_, _, _)
AddMag(a, b, c) ==
    IF a = <<>> /\ b = <<>> THEN (IF c = 0 THEN <<>> ELSE <<c>>)
    ELSE LET x == IF a = <<>> THEN 0 ELSE Head(a)
             y == IF b = <<>> THEN 0 ELSE Head(b)
             s == x + y + c
         IN <<s % Base>> \o AddMag(IF a = <<>> THEN a ELSE Tail(a),
                                   IF b = <<>> THEN b ELSE Tail(b), s \div Base)

\* a - b - c for magnitudes with a >= b + c
RECURSIVE SubMag(_, _, _)
SubMag(a, b, c) ==
    IF a = <<>> THEN <<>>
    ELSE LET y == IF b = <<>> THEN 0 ELSE Head(b)
             s == Head(a) - y - c
         IN <<s % Base>> \o SubMag(Tail(a), IF b = <<>> THEN b ELSE Tail(b),
                                   IF s < 0 THEN 1 ELSE 0)

\* -1, 0 or 1 for magnitudes without leading zero limbs
RECURSIVE CmpMag(_, _)
CmpMag(a, b) ==
    IF Len(a) # Len(b) THEN (IF Len(a) < Len(b) THEN -1 ELSE 1)
    ELSE IF a = <<>> THEN 0
    ELSE IF a[Len(a)] # b[Len(b)] THEN (IF a[Len(a)] < b[Len(b)] THEN -1 ELSE 1)
    ELSE CmpMag(SubSeq(a, 1, Len(a) - 1), SubSeq(b, 1, Len(b) - 1))

RECURSIVE MulSmall(_, _, _)
MulSmall(a, k, c) ==
    IF a = <<>> THEN (IF c = 0 THEN <<>> ELSE <<c>>)
    ELSE LET s == Head(a) * k + c
         IN <<s % Base>> \o MulSmall(Tail(a), k, s \div Base)

RECURSIVE MulMag(_, _)
MulMag(a, b) ==
    IF b = <<>> \/ a = <<>> THEN <<>>
    ELSE AddMag(MulSmall(a, Head(b), 0), <<0>> \o MulMag(a, Tail(b)), 0)

\* the canonical form: no leading zero limb, no trailing zero limb after the
\* point, zero is positive
RECURSIVE Canon(_)
Canon(d) ==
    LET m == TrimHi(d.mag)
    IN IF m = <<>> THEN [neg |-> FALSE, mag |-> <<>>, exp |-> 0]
       ELSE IF d.exp > 0 /\ Head(m) = 0
            THEN Canon([neg |-> d.neg, mag |-> Tail(m), exp |-> d.exp - 1])
            ELSE [neg |-> d.neg, mag |-> m, exp |-> d.exp]

Pow10(p) == IF p = 0 THEN 1 ELSE IF p = 1 THEN 10 ELSE IF p = 2 THEN 100
            ELSE IF p = 3 THEN 1000 ELSE Base

\* Decimal("n e-p"): the decimal n * 10^-p, for |n| < Base * Base and p in 0..4
Dec(n, p) ==
    Canon([neg |-> n < 0,
           mag |-> MulSmall(<<Abs(n) % Base, Abs(n) \div Base>>,
                            IF p = 0 THEN 1 ELSE Base \div Pow10(p), 0),
           exp |-> IF p = 0 THEN 0 ELSE 1])

D(n) == Dec(n, 0)

Shift(d, e) == Zeros(e - d.exp) \o d.mag

DNeg(a) == Canon([neg |-> ~a.neg, mag |-> a.mag, exp |-> a.exp])

DAdd(a, b) ==
    LET e == IF a.exp > b.exp THEN a.exp ELSE b.exp
        x == Shift(a, e)
        y == Shift(b, e)
    IN IF a.neg = b.neg
       THEN Canon([neg |-> a.neg, mag |-> AddMag(x, y, 0), exp |-> e])
       ELSE IF CmpMag(x, y) >= 0
            THEN Canon([neg |-> a.neg, mag |-> SubMag(x, y, 0), exp |-> e])
            ELSE Canon([neg |-> b.neg, mag |-> SubMag(y, x, 0), exp |-> e])

DSub(a, b) == DAdd(a, DNeg(b))

DMul(a, b) == Canon([neg |-> a.neg # b.neg, mag |-> MulMag(a.mag, b.mag),
                     exp |-> a.exp + b.exp])

DSign(a) == IF a.mag = <<>> THEN 0 ELSE IF a.neg THEN -1 ELSE 1

DLt(a, b) == DSign(DSub(a, b)) < 0

DLe(a, b) == DSign(DSub(a, b)) <= 0

\* Python's max(a, b): b only when it is strictly larger
DMax(a, b) == IF DLt(a, b) THEN b ELSE a

\* round(d, n) of a Decimal, n in 0..4: ROUND_HALF_EVEN at n decimal places
DRound(d, n) ==
    LET m    == MulSmall(d.mag, Pow10(n), 0) \o Zeros(d.exp)
        q    == TrimHi(SubSeq(m, d.exp + 1, Len(m)))
        r    == TrimHi(SubSeq(m, 1, d.exp))
        half == IF d.exp = 0 THEN <<>> ELSE Zeros(d.exp - 1) \o <<Base \div 2>>
        c    == CmpMag(r, half)
        odd  == q # <<>> /\ Head(q) % 2 = 1
        up   == r # <<>> /\ (c > 0 \/ (c = 0 /\ odd))
        qq   == IF up THEN AddMag(q, <<1>>, 0) ELSE q
    IN Canon([neg |-> d.neg,
              mag |-> MulSmall(qq, IF n = 0 THEN 1 ELSE Base \div Pow10(n), 0),
              exp |-> IF n = 0 THEN 0 ELSE 1])

\* the limbs of a \div k and the remainder, most significant limb first
RECURSIVE DivSmall(_, _, _)
DivSmall(a, k, r) ==
    IF a = <<>> THEN [q |-> <<>>, r |-> r]
    ELSE LET t    == r * Base + a[Len(a)]
             rest == DivSmall(SubSeq(a, 1, Len(a) - 1), k, t % k)
         IN [q |-> rest.q \o <<t \div k>>, r |-> rest.r]

\* round(a / k, n) for an integer k in 1..Base - 1: the quotient the context
\* computes to 28 significant digits rounds at n places as the exact one does
DDivRound(a, k, n) ==
    LET m    == MulSmall(a.mag, Pow10(n), 0) \o Zeros(a.exp)
        dv   == DivSmall(m, k, 0)
        q    == TrimHi(SubSeq(dv.q, a.exp + 1, Len(dv.q)))
        r    == TrimHi(SubSeq(dv.q, 1, a.exp))
        half == IF a.exp = 0 THEN <<>> ELSE Zeros(a.exp - 1) \o <<Base \div 2>>
        c    == IF a.exp = 0
                THEN (IF 2 * dv.r > k THEN 1 ELSE IF 2 * dv.r = k THEN 0 ELSE -1)
                ELSE IF CmpMag(r, half) # 0 THEN CmpMag(r, half)
                ELSE IF dv.r > 0 THEN 1 ELSE 0
        odd  == q # <<>> /\ Head(q) % 2 = 1
        up   == c > 0 \/ (c = 0 /\ odd)
        qq   == IF up THEN AddMag(q, <<1>>, 0) ELSE q
    IN Canon([neg |-> a.neg,
              mag |-> MulSmall(qq, IF n = 0 THEN 1 ELSE Base \div Pow10(n), 0),
              exp |-> IF n = 0 THEN 0 ELSE 1])

\* to_integral_value() with the rounding of the context (ROUND_HALF_EVEN)
DCeil_half_even(d) == DRound(d, 0)

\* to_integral_value(rounding='ROUND_CEILING')
DCeil(d) ==
    LET q == TrimHi(SubSeq(d.mag, d.exp + 1, Len(d.mag)))
        r == TrimHi(SubSeq(d.mag, 1, IF d.exp < Len(d.mag) THEN d.exp ELSE Len(d.mag)))
    IN Canon([neg |-> d.neg,
              mag |-> IF r # <<>> /\ ~d.neg THEN AddMag(q, <<1>>, 0) ELSE q,
              exp |-> 0])

\* float(d): a Decimal of at most 15 significant digits converts to the double
\* whose shortest decimal form is d again, so the value is kept as it is
float(d) == d

(***************************************************************************)
(* str and datetime.date                                                   *)
(***************************************************************************)
Upper == <<"A", "B", "C", "D", "E", "F", "G", "H", "I", "J", "K", "L", "M",
           "N", "O", "P", "Q", "R", "S", "T", "U", "V", "W", "X", "Y", "Z">>

Lower == <<"a", "b", "c", "d", "e", "f", "g", "h", "i", "j", "k", "l", "m",
           "n", "o", "p", "q", "r", "s", "t", "u", "v", "w", "x", "y", "z">>

\* str.lower(), character by character
lower(str) ==
    [i \in 1..Len(str) |->
        IF \E j \in 1..Len(Upper) : Upper[j] = str[i]
        THEN Lower[CHOOSE j \in 1..Len(Upper) : Upper[j] = str[i]]
        ELSE str[i]]

\* sub in str
Contains(sub, str) ==
    \E i \in 0..(Len(str) - Len(sub)) : SubSeq(str, i + 1, i + Len(sub)) = sub

\* date.weekday(): Monday is 0, Sunday is 6 (proleptic Gregorian calendar)
weekday(dt) ==
    LET t == <<0, 3, 2, 5, 0, 3, 5, 1, 4, 6, 2, 4>>
        y == IF dt.month < 3 THEN dt.year - 1 ELSE dt.year
        sunday0 == (y + (y \div 4) - (y \div 100) + (y \div 400)
                      + t[dt.month] + dt.day) % 7
    IN (sunday0 + 6) % 7

GERMAN_FIXED_HOLIDAYS == {<<1, 1>>, <<5, 1>>, <<10, 3>>, <<12, 25>>, <<12, 26>>}

_is_german_holiday(dt) == <<dt.month, dt.day>> \in GERMAN_FIXED_HOLIDAYS

_is_weekend(dt) == weekday(dt) >= 5

\* An optional argument is <<>> for None (or for the empty string) and <<v>>
\* or the string itself otherwise.
None == <<>>

(***************************************************************************)
(* PricingEngine: the multiplier methods.  s is self.                      *)
(***************************************************************************)
region_map ==
    [p \in {<<"8", "0">>, <<"8", "1">>, <<"8", "5">>,
            <<"6", "0">>, <<"6", "1">>, <<"6", "5">>,
            <<"7", "0">>, <<"7", "1">>, <<"7", "3">>,
            <<"2", "0">>, <<"2", "1">>, <<"2", "2">>,
            <<"1", "0">>, <<"1", "2">>, <<"1", "3">>, <<"1", "4">>,
            <<"5", "0">>, <<"5", "1">>} |->
        IF p[1] = "8" THEN "munich"
        ELSE IF p[1] = "6" THEN "frankfurt"
        ELSE IF p[1] = "7" THEN "stuttgart"
        ELSE IF p[1] = "2" THEN "hamburg"
        ELSE IF p[1] = "1" THEN "berlin"
        ELSE "cologne"]

get_regional_multiplier(s, postal_code) ==
    IF ~s.enable_regional \/ postal_code = None THEN D(1)
    ELSE LET prefix == SubSeq(postal_code, 1,
                              IF Len(postal_code) < 2 THEN Len(postal_code) ELSE 2)
             region == IF prefix \in DOMAIN region_map THEN region_map[prefix]
                       ELSE "default"
         IN IF region \in DOMAIN s.regional_multipliers
            THEN s.regional_multipliers[region]
            ELSE IF "default" \in DOMAIN s.regional_multipliers
                 THEN s.regional_multipliers["default"]
                 ELSE D(1)

\* get_seasonal_multiplier without the enable_seasonal flag
get_seasonal_multiplier_flag_ignored(s, moving_date) ==
    IF moving_date = None THEN D(1)
    ELSE IF moving_date[1].month \in s.seasonal_peak_months
         THEN s.seasonal_peak_multiplier
    ELSE IF moving_date[1].month \in s.seasonal_offpeak_months
         THEN s.seasonal_offpeak_multiplier
    ELSE D(1)

\* lines 119-128
get_seasonal_multiplier(s, moving_date) ==
    IF ~s.enable_seasonal \/ moving_date = None THEN D(1)
    ELSE LET month == moving_date[1].month
         IN IF month \in s.seasonal_peak_months THEN s.seasonal_peak_multiplier
            ELSE IF month \in s.seasonal_offpeak_months
                 THEN s.seasonal_offpeak_multiplier
                 ELSE D(1)

\* get_weekend_holiday_surcharge with the weekend checked before the holiday
get_weekend_holiday_surcharge_weekend_first(s, moving_date) ==
    IF moving_date = None THEN D(0)
    ELSE IF _is_weekend(moving_date[1]) THEN s.weekend_surcharge_percent
    ELSE IF _is_german_holiday(moving_date[1]) THEN s.holiday_surcharge_percent
    ELSE D(0)

\* lines 130-138
get_weekend_holiday_surcharge(s, moving_date) ==
    IF moving_date = None THEN D(0)
    ELSE IF _is_german_holiday(moving_date[1]) THEN s.holiday_surcharge_percent
    ELSE IF _is_weekend(moving_date[1]) THEN s.weekend_surcharge_percent
    ELSE D(0)

(***************************************************************************)
(* PricingEngine: the cost methods                                         *)
(***************************************************************************)
RECURSIVE calculate_volume(_)
calculate_volume(inventory) ==
    IF inventory = <<>> THEN D(0)
    ELSE LET n    == Len(inventory)
             item == inventory[n]
         IN DAdd(calculate_volume(SubSeq(inventory, 1, n - 1)),
                 DMul(item.volume_m3, D(item.quantity)))

\* calculate_man_hours with the stairs of the destination counted whether
\* or not there is an elevator (line 170 without its first condition)
calculate_man_hours_elevator_ignored(volume, origin_floor, destination_floor, origin_has_elevator, destination_has_elevator, has_disassembly, has_packing) ==
    DMax(DAdd(DAdd(DMul(volume, Dec(12, 2)),
                   DAdd(IF ~origin_has_elevator /\ origin_floor > 0
                        THEN DMul(DMul(D(origin_floor), volume), Dec(2, 2))
                        ELSE D(0),
                        IF destination_floor > 0
                        THEN DMul(DMul(D(destination_floor), volume), Dec(2, 2))
                        ELSE D(0))),
              DAdd(IF has_disassembly THEN DMul(volume, Dec(15, 2)) ELSE D(0),
                   IF has_packing THEN DMul(volume, Dec(25, 2)) ELSE D(0))),
         D(4))

\* lines 149-183
calculate_man_hours(volume, origin_floor, destination_floor, origin_has_elevator, destination_has_elevator, has_disassembly, has_packing) ==
    LET base_man_hours == DMul(volume, Dec(12, 2))
        stairs_origin ==
            IF ~origin_has_elevator /\ origin_floor > 0
            THEN DMul(DMul(D(origin_floor), volume), Dec(2, 2)) ELSE D(0)
        stairs_destination ==
            IF ~destination_has_elevator /\ destination_floor > 0
            THEN DMul(DMul(D(destination_floor), volume), Dec(2, 2)) ELSE D(0)
        stairs_effort == DAdd(stairs_origin, stairs_destination)
        service_man_hours ==
            DAdd(IF has_disassembly THEN DMul(volume, Dec(15, 2)) ELSE D(0),
                 IF has_packing THEN DMul(volume, Dec(25, 2)) ELSE D(0))
        total_man_hours == DAdd(DAdd(base_man_hours, stairs_effort), service_man_hours)
    IN DMax(total_man_hours, D(4))

\* determine_crew_size with the thresholds on the wrong side (<= for <)
determine_crew_size_inclusive(s, volume) ==
    LET needed == IF DLe(volume, D(20)) THEN 2
                  ELSE IF DLe(volume, D(45)) THEN 3
                  ELSE 4
    IN IF needed >= s.min_movers THEN needed ELSE s.min_movers

\* lines 185-193
determine_crew_size(s, volume) ==
    LET needed == IF DLt(volume, D(20)) THEN 2
                  ELSE IF DLt(volume, D(45)) THEN 3
                  ELSE 4
    IN IF needed >= s.min_movers THEN needed ELSE s.min_movers

\* calculate_distance_cost charging only the kilometres beyond the threshold
calculate_distance_cost_near_part_dropped(s, distance_km) ==
    LET base_cost ==
            IF DLe(distance_km, s.km_threshold)
            THEN DMul(distance_km, s.rate_km_near)
            ELSE DMul(DSub(distance_km, s.km_threshold), s.rate_km_far)
    IN <<DMul(base_cost, Dec(90, 2)), DMul(base_cost, Dec(110, 2))>>

\* calculate_distance_cost with the near rate for every kilometre
calculate_distance_cost_single_tier(s, distance_km) ==
    <<DMul(DMul(distance_km, s.rate_km_near), Dec(90, 2)),
      DMul(DMul(distance_km, s.rate_km_near), Dec(110, 2))>>

\* calculate_distance_cost with the spread the wrong way round
calculate_distance_cost_swapped_spread(s, distance_km) ==
    LET base_cost ==
            IF DLe(distance_km, s.km_threshold)
            THEN DMul(distance_km, s.rate_km_near)
            ELSE DAdd(DMul(s.km_threshold, s.rate_km_near),
                      DMul(DSub(distance_km, s.km_threshold), s.rate_km_far))
    IN <<DMul(base_cost, Dec(110, 2)), DMul(base_cost, Dec(90, 2))>>

\* lines 195-205
calculate_distance_cost(s, distance_km) ==
    LET spread == Dec(10, 2)
        base_cost ==
            IF DLe(distance_km, s.km_threshold)
            THEN DMul(distance_km, s.rate_km_near)
            ELSE DAdd(DMul(s.km_threshold, s.rate_km_near),
                      DMul(DSub(distance_km, s.km_threshold), s.rate_km_far))
    IN <<DMul(base_cost, DSub(D(1), spread)), DMul(base_cost, DAdd(D(1), spread))>>

\* calculate_floor_surcharge counting floor - 2 below the second floor too
calculate_floor_surcharge_unclamped(s, base_cost_min, base_cost_max, origin_floor, destination_floor, origin_has_elevator, destination_has_elevator) ==
    LET floors == (IF ~origin_has_elevator THEN origin_floor - 2 ELSE 0)
                + (IF ~destination_has_elevator THEN destination_floor - 2 ELSE 0)
    IN <<DMul(DMul(base_cost_min, s.floor_surcharge_percent), D(floors)),
         DMul(DMul(base_cost_max, s.floor_surcharge_percent), D(floors))>>

\* calculate_floor_surcharge counting every floor above the first
calculate_floor_surcharge_from_first(s, base_cost_min, base_cost_max, origin_floor, destination_floor, origin_has_elevator, destination_has_elevator) ==
    LET floors == (IF ~origin_has_elevator /\ origin_floor > 1
                   THEN origin_floor - 1 ELSE 0)
                + (IF ~destination_has_elevator /\ destination_floor > 1
                   THEN destination_floor - 1 ELSE 0)
    IN IF floors > 0
       THEN <<DMul(DMul(base_cost_min, s.floor_surcharge_percent), D(floors)),
              DMul(DMul(base_cost_max, s.floor_surcharge_percent), D(floors))>>
       ELSE <<D(0), D(0)>>

\* lines 207-227
calculate_floor_surcharge(s, base_cost_min, base_cost_max, origin_floor, destination_floor, origin_has_elevator, destination_has_elevator) ==
    LET floors == (IF ~origin_has_elevator /\ origin_floor > 2
                   THEN origin_floor - 2 ELSE 0)
                + (IF ~destination_has_elevator /\ destination_floor > 2
                   THEN destination_floor - 2 ELSE 0)
    IN IF floors > 0
       THEN <<DMul(DMul(base_cost_min, s.floor_surcharge_percent), D(floors)),
              DMul(DMul(base_cost_max, s.floor_surcharge_percent), D(floors))>>
       ELSE <<D(0), D(0)>>

\* service.metadata.get(key, 0)
metadata_get(service, key) ==
    IF key \in DOMAIN service.metadata THEN service.metadata[key] ELSE D(0)

\* what one pass of the loop over the services adds to (min_cost, max_cost)
service_cost(s, service, volume) ==
    IF ~service.enabled THEN <<D(0), D(0)>>
    ELSE IF service.service_type = "hvz_permit"
         THEN <<s.hvz_permit_cost, s.hvz_permit_cost>>
    ELSE IF service.service_type = "kitchen_assembly"
         THEN LET c == DMul(metadata_get(service, "kitchen_meters"),
                            s.kitchen_assembly_per_meter)
              IN <<c, c>>
    ELSE IF service.service_type = "external_lift"
         THEN <<s.external_lift_cost_min, s.external_lift_cost_max>>
    ELSE IF service.service_type = "packing"
         THEN LET materials == DMul(volume, s.packing_materials_per_m3)
              IN <<materials, materials>>
    ELSE IF service.service_type = "disposal"
         THEN LET cost == DAdd(s.disposal_base_cost,
                               DMul(metadata_get(service, "disposal_m3"),
                                    s.disposal_per_m3))
              IN <<cost, cost>>
    ELSE IF service.service_type = "long_carry"
         THEN LET distance_m == metadata_get(service, "carry_distance_m")
                  chargeable == DMax(DSub(distance_m, D(10)), D(0))
                  units      == DCeil(DMul(chargeable, Dec(1, 1)))
                  cost       == DMul(units, s.long_carry_per_10m)
              IN <<cost, cost>>
    ELSE IF service.service_type = "insurance_basic"
         THEN <<s.insurance_basic_flat, s.insurance_basic_flat>>
    ELSE IF service.service_type = "insurance_premium"
         THEN LET declared_value == metadata_get(service, "declared_value")
                  premium == DMax(DMul(declared_value, s.insurance_premium_percent),
                                  s.insurance_premium_min)
              IN <<premium, premium>>
    ELSE <<D(0), D(0)>>

\* calculate_services_cost without the test of service.enabled
RECURSIVE calculate_services_cost_disabled_charged(_, _, _)
calculate_services_cost_disabled_charged(s, services, volume) ==
    IF services = <<>> THEN <<D(0), D(0)>>
    ELSE LET n    == Len(services)
             rest == calculate_services_cost_disabled_charged(
                         s, SubSeq(services, 1, n - 1), volume)
             c    == service_cost(s, [services[n] EXCEPT !.enabled = TRUE], volume)
         IN <<DAdd(rest[1], c[1]), DAdd(rest[2], c[2])>>

\* lines 229-272
RECURSIVE calculate_services_cost(_, _, _)
calculate_services_cost(s, services, volume) ==
    IF services = <<>> THEN <<D(0), D(0)>>
    ELSE LET n    == Len(services)
             rest == calculate_services_cost(s, SubSeq(services, 1, n - 1), volume)
             c    == service_cost(s, services[n], volume)
         IN <<DAdd(rest[1], c[1]), DAdd(rest[2], c[2])>>

\* the inner loop over self.heavy_item_surcharges.items(), from entry i on:
\* the cost of the first keyword found in the category or the name
RECURSIVE heavy_match(_, _, _)
heavy_match(table, item, i) ==
    IF i > Len(table) THEN D(0)
    ELSE IF Contains(table[i][1], lower(item.category))
            \/ Contains(table[i][1], lower(item.name))
         THEN DMul(table[i][2], D(item.quantity))
         ELSE heavy_match(table, item, i + 1)

RECURSIVE calculate_heavy_item_surcharges(_, _)
calculate_heavy_item_surcharges(s, inventory) ==
    IF inventory = <<>> THEN D(0)
    ELSE LET n == Len(inventory)
         IN DAdd(calculate_heavy_item_surcharges(s, SubSeq(inventory, 1, n - 1)),
                 heavy_match(s.heavy_item_surcharges, inventory[n], 1))

should_suggest_external_lift(floor, has_elevator, volume) ==
    (floor > 4 /\ ~has_elevator)
        \/ (DLt(D(50), volume) /\ floor > 2 /\ ~has_elevator)

(***************************************************************************)
(* PricingEngine.generate_quote.  r holds the arguments of the call.       *)
(***************************************************************************)
\* any(s.enabled and s.service_type == t for s in services)
any_enabled(services, t) ==
    \E i \in 1..Len(services) : services[i].enabled /\ services[i].service_type = t

\* the break decided on the travel time of a car
truck_travel_time_car_threshold(travel_time_hours) ==
    IF DLt(Dec(45, 1), travel_time_hours)
    THEN DAdd(DMul(travel_time_hours, Dec(115, 2)), Dec(75, 2))
    ELSE DMul(travel_time_hours, Dec(115, 2))

\* lines 318-321: the truck is 1.15 times slower than a car, and takes a break
truck_travel_time(travel_time_hours) ==
    LET t == DMul(travel_time_hours, Dec(115, 2))
    IN IF DLt(Dec(45, 1), t) THEN DAdd(t, Dec(75, 2)) ELSE t

\* lines 357-364: the multiplier stack on a sum of components
apply_multipliers(netto, combined_multiplier, weekend_holiday_pct) ==
    LET m == DMul(netto, combined_multiplier)
    IN IF DLt(D(0), weekend_holiday_pct)
       THEN DMul(m, DAdd(D(1), weekend_holiday_pct))
       ELSE m

\* the net price left as the unrounded product
round_netto_skipped(netto) == netto

\* lines 366-367: the net price
round_netto(netto) == DRound(netto, 2)

\* lines 369-370: the VAT of a net price
vat_of(s, netto) == DRound(DMul(netto, s.vat_rate), 2)

\* the gross price as the net price plus the standard 19 %, whatever the VAT
\* amount of the quote
brutto_of_standard_rate(netto, vat) == DRound(DMul(netto, Dec(119, 2)), 2)

\* lines 371-372: the gross price
brutto_of(netto, vat) == DRound(DAdd(netto, vat), 2)

\* The body of generate_quote is a chain of operators, each binding the
\* values the code computes next and handing them on; they are defined last
\* step first.

\* lines 374-405: the dictionary returned
quote_result(s, r, e, c, f, m, netto_min, netto_max, vat_min, vat_max, brutto_min, brutto_max) ==
    [min_price |-> brutto_min,
     max_price |-> brutto_max,
     min_price_netto |-> netto_min,
     max_price_netto |-> netto_max,
     vat_amount |-> [min |-> vat_min, max |-> vat_max],
     vat_rate |-> float(s.vat_rate),
     \* loading_time + truck_travel_time, as (man_hours + truck * crew) / crew
     estimated_hours |->
         DDivRound(DAdd(e.man_hours, DMul(e.truck_travel_time, D(e.crew_size))),
                   e.crew_size, 1),
     volume_m3 |-> DRound(r.volume, 2),
     distance_km |-> DRound(r.distance_km, 2),
     breakdown |->
         [man_hours |-> DRound(e.man_hours, 1),
          crew_size |-> e.crew_size,
          travel_time |-> DRound(e.truck_travel_time, 1),
          volume_cost |-> [min |-> DRound(c.volume_cost[1], 2),
                           max |-> DRound(c.volume_cost[2], 2)],
          distance_cost |-> [min |-> DRound(c.distance_cost[1], 2),
                             max |-> DRound(c.distance_cost[2], 2)],
          labor_cost |-> [min |-> DRound(c.labor_cost[1], 2),
                          max |-> DRound(c.labor_cost[2], 2)],
          floor_surcharge |-> [min |-> DRound(f[1], 2), max |-> DRound(f[2], 2)],
          services_cost |-> [min |-> DRound(c.services_cost[1], 2),
                             max |-> DRound(c.services_cost[2], 2)],
          heavy_item_surcharge |-> DRound(c.heavy_item_surcharge, 2)],
     multipliers |->
         [regional |-> float(m.regional),
          seasonal |-> float(m.seasonal),
          weekend_holiday |-> float(m.weekend_holiday),
          combined |-> float(DMul(DMul(m.regional, m.seasonal),
                                  DAdd(D(1), m.weekend_holiday)))],
     suggestions |->
         [external_lift_origin |->
              should_suggest_external_lift(r.origin_floor, r.origin_has_elevator,
                                           r.volume),
          external_lift_destination |->
              should_suggest_external_lift(r.destination_floor,
                                           r.destination_has_elevator, r.volume)]]

\* lines 371-372
quote_with_vat(s, r, e, c, f, m, netto_min, netto_max, vat_min, vat_max) ==
    quote_result(s, r, e, c, f, m, netto_min, netto_max, vat_min, vat_max,
                 brutto_of(netto_min, vat_min), brutto_of(netto_max, vat_max))

\* lines 369-370
quote_with_netto(s, r, e, c, f, m, netto_min, netto_max) ==
    quote_with_vat(s, r, e, c, f, m, netto_min, netto_max,
                   vat_of(s, netto_min), vat_of(s, netto_max))

\* lines 343-344: the sum of the six components, i = 1 for min and 2 for max
netto_sum(c, f, i) ==
    DAdd(DAdd(DAdd(DAdd(DAdd(c.volume_cost[i], c.distance_cost[i]),
                        c.labor_cost[i]), f[i]), c.services_cost[i]),
         c.heavy_item_surcharge)

\* lines 343-367
quote_with_surcharge(s, r, e, c, f, m) ==
    quote_with_netto(s, r, e, c, f, m,
        round_netto(apply_multipliers(netto_sum(c, f, 1),
                                      DMul(m.regional, m.seasonal),
                                      m.weekend_holiday)),
        round_netto(apply_multipliers(netto_sum(c, f, 2),
                                      DMul(m.regional, m.seasonal),
                                      m.weekend_holiday)))

\* lines 346-355: the multipliers of the call
quote_multipliers(s, r) ==
    [regional |-> DMax(get_regional_multiplier(s, r.origin_postal_code),
                       get_regional_multiplier(s, r.destination_postal_code)),
     seasonal |-> get_seasonal_multiplier(s, r.moving_date),
     weekend_holiday |-> get_weekend_holiday_surcharge(s, r.moving_date)]

\* lines 334-337 and 346-355
quote_with_costs(s, r, e, c) ==
    quote_with_surcharge(s, r, e, c,
        calculate_floor_surcharge(s, DAdd(c.volume_cost[1], c.labor_cost[1]),
                                  DAdd(c.volume_cost[2], c.labor_cost[2]),
                                  r.origin_floor, r.destination_floor,
                                  r.origin_has_elevator,
                                  r.destination_has_elevator),
        quote_multipliers(s, r))

\* lines 329-333 and 338-341: the components that need no other component
quote_costs(s, r, man_hours) ==
    [volume_cost |-> <<DMul(r.volume, s.base_rate_m3_min),
                       DMul(r.volume, s.base_rate_m3_max)>>,
     distance_cost |-> calculate_distance_cost(s, r.distance_km),
     labor_cost |-> <<DMul(man_hours, s.hourly_labor_min),
                      DMul(man_hours, s.hourly_labor_max)>>,
     services_cost |-> calculate_services_cost(s, r.services, r.volume),
     heavy_item_surcharge |-> calculate_heavy_item_surcharges(s, r.inventory)]

quote_with_effort(s, r, e) ==
    quote_with_costs(s, r, e, quote_costs(s, r, e.man_hours))

\* lines 310-321: crew, effort and the truck's travel time
quote_effort(s, r) ==
    [crew_size |-> determine_crew_size(s, r.volume),
     man_hours |->
         calculate_man_hours(r.volume, r.origin_floor, r.destination_floor,
                             r.origin_has_elevator, r.destination_has_elevator,
                             any_enabled(r.services, "disassembly"),
                             any_enabled(r.services, "packing")),
     truck_travel_time |-> truck_travel_time(r.travel_time_hours)]

generate_quote(s, r) == quote_with_effort(s, r, quote_effort(s, r))

(***************************************************************************)
(* The engines the methods are called on.  TestConfig is the custom_engine *)
(* of tests/test_pricing_engine.py, completed with the defaults of         *)
(* core/config.py; the others change a few parameters of it.  No override  *)
(* value is validated (api/v1/admin.py, update_pricing_config), so the set *)
(* holds negative and inverted values too.                                 *)
(***************************************************************************)
REGIONAL_MULTIPLIERS ==
    [g \in {"munich", "frankfurt", "stuttgart", "hamburg", "berlin", "cologne",
            "default"} |->
        IF g = "munich" THEN Dec(115, 2)
        ELSE IF g = "frankfurt" THEN Dec(112, 2)
        ELSE IF g \in {"stuttgart", "hamburg"} THEN Dec(110, 2)
        ELSE IF g = "berlin" THEN Dec(108, 2)
        ELSE IF g = "cologne" THEN Dec(105, 2)
        ELSE D(1)]

TestConfig ==
    [base_rate_m3_min |-> D(25), base_rate_m3_max |-> D(35),
     rate_km_near |-> D(2), rate_km_far |-> D(1), km_threshold |-> D(50),
     hourly_labor_min |-> D(60), hourly_labor_max |-> D(80),
     min_movers |-> 2,
     floor_surcharge_percent |-> Dec(15, 2),
     hvz_permit_cost |-> D(120),
     kitchen_assembly_per_meter |-> D(45),
     external_lift_cost_min |-> D(350), external_lift_cost_max |-> D(500),
     vat_rate |-> Dec(19, 2),
     enable_regional |-> FALSE,
     regional_multipliers |-> REGIONAL_MULTIPLIERS,
     enable_seasonal |-> FALSE,
     seasonal_peak_months |-> {5, 6, 7, 8, 9},
     seasonal_peak_multiplier |-> Dec(115, 2),
     seasonal_offpeak_months |-> {12, 1, 2},
     seasonal_offpeak_multiplier |-> D(1),
     weekend_surcharge_percent |-> Dec(25, 2),
     holiday_surcharge_percent |-> Dec(50, 2),
     packing_materials_per_m3 |-> D(8),
     heavy_item_surcharges |-> << <<(<<"p", "i", "a", "n", "o">>), D(150)>>,
                                  <<(<<"s", "a", "f", "e">>), D(120)>>,
                                  <<(<<"a", "n", "t", "i", "q", "u", "e">>), D(100)>> >>,
     long_carry_per_10m |-> D(35),
     disposal_base_cost |-> D(80), disposal_per_m3 |-> D(45),
     insurance_basic_flat |-> D(49),
     insurance_premium_percent |-> Dec(1, 2),
     insurance_premium_min |-> D(89)]

\* tests/test_pricing_engine.py:780-789, test_full_multiplier_stacking
StackingConfig ==
    [TestConfig EXCEPT !.enable_regional = TRUE, !.enable_seasonal = TRUE,
                       !.seasonal_offpeak_multiplier = Dec(95, 2)]

\* a reduced VAT rate, a larger crew and equal min and max rates
FlatConfig ==
    [TestConfig EXCEPT !.vat_rate = Dec(7, 2), !.min_movers = 5,
                       !.base_rate_m3_max = D(25), !.hourly_labor_max = D(60),
                       !.external_lift_cost_max = D(350)]

\* a weekend and holiday discount
DiscountConfig ==
    [StackingConfig EXCEPT !.weekend_surcharge_percent = Dec(-10, 2),
                           !.holiday_surcharge_percent = Dec(-20, 2)]

\* min rates above the max rates
InvertedConfig ==
    [TestConfig EXCEPT !.base_rate_m3_min = D(35), !.base_rate_m3_max = D(25),
                       !.external_lift_cost_min = D(500),
                       !.external_lift_cost_max = D(350)]

\* a negative rate
NegativeRateConfig ==
    [TestConfig EXCEPT !.rate_km_near = D(-2), !.min_movers = 0]

\* a negative distance threshold, with equal min and max rates
NegativeThresholdConfig ==
    [FlatConfig EXCEPT !.km_threshold = D(-100)]

\* the fixture's table with a keyword spelt with a capital
MixedCaseKeyConfig ==
    [TestConfig EXCEPT !.heavy_item_surcharges =
        << <<(<<"P", "i", "a", "n", "o">>), D(150)>>,
           <<(<<"s", "a", "f", "e">>), D(120)>> >>]

\* regional pricing with a "default" region above 1, and seasonal pricing
\* with July in the peak and in the off-peak months
DefaultRegionConfig ==
    [TestConfig EXCEPT !.enable_regional = TRUE,
                       !.regional_multipliers =
                           [REGIONAL_MULTIPLIERS EXCEPT !["default"] = Dec(105, 2)],
                       !.enable_seasonal = TRUE,
                       !.seasonal_offpeak_months = {12, 1, 2, 7},
                       !.seasonal_offpeak_multiplier = Dec(9, 1)]

Engines == {TestConfig, StackingConfig, FlatConfig, DiscountConfig,
            InvertedConfig, NegativeRateConfig, NegativeThresholdConfig,
            MixedCaseKeyConfig, DefaultRegionConfig}

(***************************************************************************)
(* core/config.py and PricingEngine.__init__.  A value of the settings or  *)
(* of an override map is a kind ("number", "numeric_text", "text", "none", *)
(* "bool", "mapping", "list") with the number it stands for, if any.       *)
(***************************************************************************)
Number(d) == [kind |-> "number", num |-> d]

Other(k) == [kind |-> k, num |-> D(0)]

\* the pricing attributes class Settings defines (config.py:55-102)
Settings ==
    [a \in {"BASE_RATE_PER_M3_MIN", "BASE_RATE_PER_M3_MAX", "RATE_PER_KM_NEAR",
            "RATE_PER_KM_FAR", "KM_THRESHOLD", "HOURLY_LABOR_MIN",
            "HOURLY_LABOR_MAX", "MIN_MOVERS", "FLOOR_SURCHARGE_PERCENT",
            "HVZ_PERMIT_COST", "KITCHEN_ASSEMBLY_PER_METER",
            "EXTERNAL_LIFT_COST_MIN", "EXTERNAL_LIFT_COST_MAX",
            "ENABLE_REGIONAL_PRICING", "REGIONAL_MULTIPLIERS",
            "ENABLE_SEASONAL_PRICING", "SEASONAL_PEAK_MONTHS",
            "SEASONAL_PEAK_MULTIPLIER", "SEASONAL_OFFPEAK_MONTHS",
            "SEASONAL_OFFPEAK_MULTIPLIER"} |->
        IF a = "BASE_RATE_PER_M3_MIN" THEN Number(D(25))
        ELSE IF a = "BASE_RATE_PER_M3_MAX" THEN Number(D(35))
        ELSE IF a = "RATE_PER_KM_NEAR" THEN Number(D(2))
        ELSE IF a = "RATE_PER_KM_FAR" THEN Number(D(1))
        ELSE IF a = "KM_THRESHOLD" THEN Number(D(50))
        ELSE IF a = "HOURLY_LABOR_MIN" THEN Number(D(60))
        ELSE IF a = "HOURLY_LABOR_MAX" THEN Number(D(80))
        ELSE IF a = "MIN_MOVERS" THEN Number(D(2))
        ELSE IF a = "FLOOR_SURCHARGE_PERCENT" THEN Number(Dec(15, 2))
        ELSE IF a = "HVZ_PERMIT_COST" THEN Number(D(120))
        ELSE IF a = "KITCHEN_ASSEMBLY_PER_METER" THEN Number(D(45))
        ELSE IF a = "EXTERNAL_LIFT_COST_MIN" THEN Number(D(350))
        ELSE IF a = "EXTERNAL_LIFT_COST_MAX" THEN Number(D(500))
        ELSE IF a \in {"ENABLE_REGIONAL_PRICING", "ENABLE_SEASONAL_PRICING"}
             THEN Other("bool")
        ELSE IF a = "REGIONAL_MULTIPLIERS" THEN Other("mapping")
        ELSE IF a \in {"SEASONAL_PEAK_MONTHS", "SEASONAL_OFFPEAK_MONTHS"}
             THEN Other("list")
        ELSE IF a = "SEASONAL_PEAK_MULTIPLIER" THEN Number(Dec(115, 2))
        ELSE Number(D(1))]

\* the assignments of __init__ in source order (lines 52-98): the attribute
\* set, the override key, the settings attribute read for the default, and
\* the conversion applied to the value
Parameters ==
    << <<"base_rate_m3_min", "base_rate_m3_min", "BASE_RATE_PER_M3_MIN", "_d">>,
       <<"base_rate_m3_max", "base_rate_m3_max", "BASE_RATE_PER_M3_MAX", "_d">>,
       <<"rate_km_near", "rate_km_near", "RATE_PER_KM_NEAR", "_d">>,
       <<"rate_km_far", "rate_km_far", "RATE_PER_KM_FAR", "_d">>,
       <<"km_threshold", "km_threshold", "KM_THRESHOLD", "_d">>,
       <<"hourly_labor_min", "hourly_labor_min", "HOURLY_LABOR_MIN", "_d">>,
       <<"hourly_labor_max", "hourly_labor_max", "HOURLY_LABOR_MAX", "_d">>,
       <<"min_movers", "min_movers", "MIN_MOVERS", "int">>,
       <<"floor_surcharge_percent", "floor_surcharge_percent",
         "FLOOR_SURCHARGE_PERCENT", "_d">>,
       <<"hvz_permit_cost", "hvz_permit_cost", "HVZ_PERMIT_COST", "_d">>,
       <<"kitchen_assembly_per_meter", "kitchen_assembly_per_meter",
         "KITCHEN_ASSEMBLY_PER_METER", "_d">>,
       <<"external_lift_cost_min", "external_lift_cost_min",
         "EXTERNAL_LIFT_COST_MIN", "_d">>,
       <<"external_lift_cost_max", "external_lift_cost_max",
         "EXTERNAL_LIFT_COST_MAX", "_d">>,
       <<"vat_rate", "vat_rate", "VAT_RATE", "_d">>,
       <<"enable_regional", "enable_regional_pricing",
         "ENABLE_REGIONAL_PRICING", "">>,
       <<"regional_multipliers", "regional_multipliers",
         "REGIONAL_MULTIPLIERS", "">>,
       <<"enable_seasonal", "enable_seasonal_pricing",
         "ENABLE_SEASONAL_PRICING", "">>,
       <<"seasonal_peak_months", "seasonal_peak_months",
         "SEASONAL_PEAK_MONTHS", "">>,
       <<"seasonal_peak_multiplier", "seasonal_peak_multiplier",
         "SEASONAL_PEAK_MULTIPLIER", "_d">>,
       <<"seasonal_offpeak_months", "seasonal_offpeak_months",
         "SEASONAL_OFFPEAK_MONTHS", "">>,
       <<"seasonal_offpeak_multiplier", "seasonal_offpeak_multiplier",
         "SEASONAL_OFFPEAK_MULTIPLIER", "_d">>,
       <<"weekend_surcharge_percent", "weekend_surcharge_percent",
         "WEEKEND_SURCHARGE_PERCENT", "_d">>,
       <<"holiday_surcharge_percent", "holiday_surcharge_percent",
         "HOLIDAY_SURCHARGE_PERCENT", "_d">>,
       <<"packing_materials_per_m3", "packing_materials_per_m3",
         "PACKING_MATERIALS_PER_M3", "_d">>,
       <<"heavy_item_surcharges", "heavy_item_surcharges",
         "HEAVY_ITEM_SURCHARGES", "">>,
       <<"long_carry_per_10m", "long_carry_per_10m", "LONG_CARRY_PER_10M", "_d">>,
       <<"disposal_base_cost", "disposal_base_cost", "DISPOSAL_BASE_COST", "_d">>,
       <<"disposal_per_m3", "disposal_per_m3", "DISPOSAL_PER_M3", "_d">>,
       <<"insurance_basic_flat", "insurance_basic_flat",
         "INSURANCE_BASIC_FLAT", "_d">>,
       <<"insurance_premium_percent", "insurance_premium_percent",
         "INSURANCE_PREMIUM_PERCENT", "_d">>,
       <<"insurance_premium_min", "insurance_premium_min",
         "INSURANCE_PREMIUM_MIN", "_d">> >>

\* Decimal(str(value)): the value, or the exception raised
_d(value) ==
    IF value.kind \in {"number", "numeric_text"}
    THEN [error |-> "", value |-> Number(value.num)]
    ELSE [error |-> "InvalidOperation", value |-> value]

\* int(value): truncation towards zero of a number, the integer a text of
\* digits spells, or the exception raised
int(value) ==
    IF value.kind = "number"
    THEN [error |-> "",
          value |-> Number(LET c == DCeil(value.num)
                           IN IF value.num.neg \/ c = value.num THEN c
                              ELSE DSub(c, D(1)))]
    ELSE IF value.kind = "numeric_text"
         THEN IF DCeil(value.num) = value.num
              THEN [error |-> "", value |-> Number(value.num)]
              ELSE [error |-> "ValueError", value |-> value]
    ELSE IF value.kind = "text" THEN [error |-> "ValueError", value |-> value]
    ELSE IF value.kind = "bool" THEN [error |-> "", value |-> Number(value.num)]
    ELSE [error |-> "TypeError", value |-> value]

\* one assignment of __init__: the default is read from the settings before
\* cfg.get is called, then the value is converted
assign(cfg, p) ==
    LET has_default == p[3] \in DOMAIN Settings
        default == IF has_default THEN Settings[p[3]] ELSE Number(Dec(19, 2))
        value == IF p[2] \in DOMAIN cfg THEN cfg[p[2]] ELSE default
    IN IF ~has_default /\ p[3] # "VAT_RATE"
       THEN [error |-> "AttributeError", value |-> default]
       ELSE IF p[4] = "_d" THEN _d(value)
       ELSE IF p[4] = "int" THEN int(value)
       ELSE [error |-> "", value |-> value]

\* PricingEngine(company_config): the attributes of the engine built, or the
\* first exception an assignment raises and the attribute it was raised at
RECURSIVE init_from(_, _, _)
init_from(cfg, i, attrs) ==
    IF i > Len(Parameters) THEN [error |-> "", at |-> "", attrs |-> attrs]
    ELSE LET a == assign(cfg, Parameters[i])
         IN IF a.error # ""
            THEN [error |-> a.error, at |-> Parameters[i][1], attrs |-> <<>>]
            ELSE init_from(cfg, i + 1,
                           [k \in DOMAIN attrs \cup {Parameters[i][1]} |->
                               IF k = Parameters[i][1] THEN a.value ELSE attrs[k]])

__init__(company_config) == init_from(company_config, 1, <<>>)

(***************************************************************************)
(* The arguments the operations are called with                            *)
(***************************************************************************)
MaxFloor == 3

MaxVolume == 46

MaxDistanceSteps == 9

MaxCarrySteps == 13

Floors == -1..MaxFloor

\* whole and fractional volumes on both sides of the crew thresholds and of
\* the 4-hour floor of the effort
Volumes == {D(v) : v \in -1..MaxVolume} \cup {Dec(1995, 2), Dec(445, 1)}

QuoteVolumes == {D(-3), D(0), Dec(75, 1), D(20), D(45)}

\* volumes whose effort lies below, at and above the 4-hour floor
EffortVolumes == {D(-3), D(0), Dec(75, 1), D(20), D(33), D(34), D(45)}

\* distances in steps of 12.5 km, the 50 km threshold among them
Distances == {Dec(125 * k, 1) : k \in -1..MaxDistanceSteps}

QuoteDistances == {D(-10), D(0), D(30), D(80)}

NoMetadata == [k \in {} |-> D(0)]

Service(t, enabled, metadata) ==
    [service_type |-> t, enabled |-> enabled, metadata |-> metadata]

ServiceLists ==
    {<<>>,
     <<Service("packing", TRUE, NoMetadata)>>,
     <<Service("disassembly", TRUE, NoMetadata),
       Service("packing", FALSE, NoMetadata)>>,
     <<Service("external_lift", TRUE, NoMetadata),
       Service("hvz_permit", TRUE, NoMetadata)>>,
     <<Service("kitchen_assembly", TRUE, [k \in {"kitchen_meters"} |-> Dec(35, 1)]),
       Service("insurance_basic", TRUE, NoMetadata)>>,
     <<Service("disposal", TRUE, [k \in {"disposal_m3"} |-> D(2)]),
       Service("long_carry", TRUE, [k \in {"carry_distance_m"} |-> D(25)])>>,
     <<Service("insurance_premium", TRUE, [k \in {"declared_value"} |-> D(30000)]),
       Service("piano_tuning", TRUE, NoMetadata)>>}

\* carry distances in steps of 2.5 m, and just beyond the ends of two bands
CarryDistances ==
    {Dec(25 * k, 1) : k \in -2..MaxCarrySteps} \cup {Dec(1001, 2), Dec(3001, 2)}

\* the lists calculate_services_cost is called with: those of the quotes,
\* disabled services of every kind of rule, metadata left out, a declared
\* value below the premium minimum, and one long carry of every distance
ServiceCostLists ==
    ServiceLists
    \cup
    {<<Service("hvz_permit", FALSE, NoMetadata),
       Service("external_lift", FALSE, NoMetadata),
       Service("insurance_basic", TRUE, NoMetadata)>>,
     <<Service("kitchen_assembly", TRUE, NoMetadata),
       Service("disposal", TRUE, NoMetadata),
       Service("long_carry", FALSE, [k \in {"carry_distance_m"} |-> D(25)])>>,
     <<Service("insurance_premium", TRUE, [k \in {"declared_value"} |-> D(5000)]),
       Service("disassembly", TRUE, NoMetadata),
       Service("packing", TRUE, NoMetadata),
       Service("packing", TRUE, NoMetadata)>>}
    \cup
    {<<Service("long_carry", TRUE, [k \in {"carry_distance_m"} |-> d])>> :
        d \in CarryDistances}

Item(name, category, volume_m3, quantity) ==
    [name |-> name, category |-> category, volume_m3 |-> volume_m3,
     quantity |-> quantity]

Inventories ==
    {<<>>,
     <<Item(<<"S", "o", "f", "a">>, <<>>, Dec(15, 1), 1)>>,
     <<Item(<<"G", "r", "a", "n", "d", " ", "P", "i", "a", "n", "o">>, <<>>,
            D(2), 1),
       Item(<<"B", "o", "x">>, <<"s", "a", "f", "e">>, Dec(5, 1), 2)>>}

\* the inventories calculate_heavy_item_surcharges is called with: those of
\* the quotes, a name in capitals, a name with two keywords of the table, a
\* keyword in the category only, and several items
HeavyInventories ==
    Inventories
    \cup
    {<<Item(<<"P", "I", "A", "N", "O">>, <<>>, D(2), 1)>>,
     <<Item(<<"A", "n", "t", "i", "q", "u", "e", " ", "s", "a", "f", "e">>, <<>>,
            D(1), 3)>>,
     <<Item(<<"B", "o", "x">>, <<"A", "n", "t", "i", "q", "u", "e">>, Dec(5, 1), 2),
       Item(<<"S", "o", "f", "a">>, <<>>, Dec(15, 1), 1),
       Item(<<"p", "i", "a", "n", "o">>, <<"s", "a", "f", "e">>, D(2), 1)>>}

Date(y, m, d) == <<[year |-> y, month |-> m, day |-> d]>>

\* no date, a Wednesday in March, a Saturday in July, New Year's Day on a
\* Wednesday, the 3rd of October on a Saturday, a Sunday in December
Dates == {None, Date(2025, 3, 12), Date(2025, 7, 5), Date(2025, 1, 1),
          Date(2026, 10, 3), Date(2025, 12, 7)}

\* no postal code, Munich, Berlin, Leipzig
PostalCodes == {None, <<"8", "0", "3", "3", "1">>, <<"1", "0", "1", "1", "5">>,
                <<"0", "4", "1", "0", "9">>}

\* generate_quote(volume, distance_km) with every other argument at its default
DefaultRequest(volume, distance_km) ==
    [volume |-> volume, distance_km |-> distance_km, travel_time_hours |-> D(0),
     origin_floor |-> 0, destination_floor |-> 0,
     origin_has_elevator |-> FALSE, destination_has_elevator |-> FALSE,
     services |-> <<>>, origin_postal_code |-> None,
     destination_postal_code |-> None, moving_date |-> None, inventory |-> <<>>]

\* the calls of generate_quote: floors and elevators, services and travel
\* time, postal codes and dates, inventories, all of them at once, travel
\* times around the break, and a volume and a distance in hundredths
Requests ==
    {[DefaultRequest(v, d) EXCEPT !.origin_floor = fo, !.destination_floor = fd,
                                  !.origin_has_elevator = eo,
                                  !.destination_has_elevator = ed] :
        v \in QuoteVolumes, d \in QuoteDistances, fo \in Floors,
        fd \in {0, MaxFloor}, eo \in BOOLEAN, ed \in BOOLEAN}
    \cup
    {[DefaultRequest(v, D(30)) EXCEPT !.services = sv, !.travel_time_hours = t] :
        v \in QuoteVolumes, sv \in ServiceLists, t \in {D(0), Dec(15, 1), D(4)}}
    \cup
    {[DefaultRequest(v, D(80)) EXCEPT !.origin_postal_code = po,
                                      !.destination_postal_code = pd,
                                      !.moving_date = dt] :
        v \in {Dec(75, 1), D(45)}, po \in PostalCodes, pd \in PostalCodes,
        dt \in Dates}
    \cup
    {[DefaultRequest(v, d) EXCEPT !.inventory = inv] :
        v \in QuoteVolumes, d \in {D(0), D(30)}, inv \in Inventories}
    \cup
    {[DefaultRequest(v, d) EXCEPT !.origin_floor = MaxFloor + 2,
                                  !.destination_floor = MaxFloor,
                                  !.services = sv, !.travel_time_hours = D(4),
                                  !.origin_postal_code = po, !.moving_date = dt,
                                  !.inventory = inv] :
        v \in QuoteVolumes, d \in QuoteDistances,
        sv \in ServiceLists \ {<<>>}, po \in {<<"8", "0", "3", "3", "1">>},
        dt \in {Date(2025, 7, 5), Date(2025, 1, 1)},
        inv \in Inventories \ {<<>>}}
    \cup
    \* travel times on both sides of the 4.5 truck hours
    {[DefaultRequest(v, D(80)) EXCEPT !.travel_time_hours = t] :
        v \in QuoteVolumes, t \in {Dec(391, 2), Dec(392, 2), D(5)}}
    \cup
    \* a volume and a distance with two decimals: components with more than
    \* two decimals
    {[DefaultRequest(Dec(4629, 2), Dec(7637, 2)) EXCEPT
          !.origin_floor = fo, !.origin_postal_code = po] :
        fo \in {0, MaxFloor}, po \in PostalCodes}

\* the override maps PricingEngine is constructed from: no map (None or {}),
\* and maps giving some of these keys a well-formed or a malformed value
OverrideKeys == {"base_rate_m3_min", "min_movers", "regional_multipliers",
                 "weekend_surcharge_percent", "surprise_fee"}

OverrideValues == {Number(D(40)), Number(Dec(-25, 1)), Other("text")}

OverrideMaps ==
    UNION {[keys -> OverrideValues] : keys \in SUBSET OverrideKeys}

(***************************************************************************)
(* The state: the engine the methods are called on, and the call made on   *)
(* it (the operation, its arguments and what it returned or raised), until *)
(* the caller has taken the result.                                        *)
(***************************************************************************)
VARIABLES engine, call, inflight, db, mail, tasks, maps_service

\* the state outside the engine: the database, the confirmation emails
\* attempted, the request handlers and background tasks under way, and the
\* route service with its cache
web == <<db, mail, tasks, maps_service>>

vars == <<engine, call, inflight, web>>

NoCall == [op |-> "", args |-> <<>>, ret |-> <<>>]

\* The calls of generate_quote that run at the same time on the engine, one
\* per thread: the point the call has reached (pc), its arguments and its
\* local variables (e: lines 310-324, c and f: lines 328-341, ret: the
\* returned dict).  `on` is the engine as the call found it, and `overlap`
\* tells whether a step of another call was taken while this one was running.
MaxThreads == 2

Threads == 1..MaxThreads

Idle ==
    [pc |-> "idle", args |-> <<>>, on |-> <<>>, e |-> <<>>, c |-> <<>>,
     f |-> <<>>, ret |-> <<>>, overlap |-> FALSE]

\* nothing stored, sent, under way or cached
NoWeb ==
    /\ db = [quotes |-> <<>>, company |-> None]
    /\ mail = <<>>
    /\ tasks = <<>>
    /\ maps_service = [client |-> FALSE, _cache |-> <<>>]

Init ==
    /\ engine \in Engines
    /\ call = NoCall
    /\ inflight = [t \in Threads |-> Idle]
    /\ NoWeb

Construct ==
    \E company_config \in OverrideMaps :
        /\ call = NoCall
        /\ call' = [op |-> "__init__", args |-> company_config,
                    ret |-> __init__(company_config)]
        /\ UNCHANGED <<engine, inflight, web>>

\* `after` holds the lists of the caller as the method leaves them: the
\* methods only iterate over them (lines 145, 234, 277, 314-315)
GenerateQuote ==
    \E r \in Requests :
        /\ call = NoCall
        /\ call' = [op |-> "generate_quote", args |-> r,
                    ret |-> generate_quote(engine, r),
                    after |-> [services |-> r.services,
                               inventory |-> r.inventory]]
        /\ UNCHANGED <<engine, inflight, web>>

CalculateManHours ==
    \E volume \in EffortVolumes, origin_floor \in Floors,
       destination_floor \in Floors,
       origin_has_elevator \in BOOLEAN, destination_has_elevator \in BOOLEAN,
       has_disassembly \in BOOLEAN, has_packing \in BOOLEAN :
        /\ call = NoCall
        /\ call' = [op |-> "calculate_man_hours",
                    args |-> [volume |-> volume, origin_floor |-> origin_floor,
                              destination_floor |-> destination_floor,
                              origin_has_elevator |-> origin_has_elevator,
                              destination_has_elevator |-> destination_has_elevator,
                              has_disassembly |-> has_disassembly,
                              has_packing |-> has_packing],
                    ret |-> calculate_man_hours(volume, origin_floor,
                                destination_floor, origin_has_elevator,
                                destination_has_elevator, has_disassembly,
                                has_packing)]
        /\ UNCHANGED <<engine, inflight, web>>

\* GetSeasonalMultiplier switching seasonal pricing off once it has answered
GetSeasonalMultiplier_switching_off ==
    \E moving_date \in Dates :
        /\ call = NoCall
        /\ call' = [op |-> "get_seasonal_multiplier",
                    args |-> [moving_date |-> moving_date],
                    ret |-> get_seasonal_multiplier(engine, moving_date)]
        /\ engine' = [engine EXCEPT !.enable_seasonal = FALSE]
        /\ UNCHANGED <<inflight, web>>

DetermineCrewSize ==
    \E volume \in Volumes :
        /\ call = NoCall
        /\ call' = [op |-> "determine_crew_size", args |-> [volume |-> volume],
                    ret |-> determine_crew_size(engine, volume)]
        /\ UNCHANGED <<engine, inflight, web>>

CalculateDistanceCost ==
    \E distance_km \in Distances :
        /\ call = NoCall
        /\ call' = [op |-> "calculate_distance_cost",
                    args |-> [distance_km |-> distance_km],
                    ret |-> calculate_distance_cost(engine, distance_km)]
        /\ UNCHANGED <<engine, inflight, web>>

CalculateServicesCost ==
    \E services \in ServiceCostLists, volume \in QuoteVolumes :
        /\ call = NoCall
        /\ call' = [op |-> "calculate_services_cost",
                    args |-> [services |-> services, volume |-> volume],
                    ret |-> calculate_services_cost(engine, services, volume),
                    after |-> [services |-> services]]
        /\ UNCHANGED <<engine, inflight, web>>

CalculateHeavyItemSurcharges ==
    \E inventory \in HeavyInventories :
        /\ call = NoCall
        /\ call' = [op |-> "calculate_heavy_item_surcharges",
                    args |-> [inventory |-> inventory],
                    ret |-> calculate_heavy_item_surcharges(engine, inventory),
                    after |-> [inventory |-> inventory]]
        /\ UNCHANGED <<engine, inflight, web>>

CalculateVolume ==
    \E inventory \in Inventories :
        /\ call = NoCall
        /\ call' = [op |-> "calculate_volume",
                    args |-> [inventory |-> inventory],
                    ret |-> calculate_volume(inventory),
                    after |-> [inventory |-> inventory]]
        /\ UNCHANGED <<engine, inflight, web>>

CalculateFloorSurcharge ==
    \E base_cost_min \in {D(0), D(500)}, base_cost_max \in {D(700)},
       origin_floor \in Floors, destination_floor \in {0, MaxFloor},
       origin_has_elevator \in BOOLEAN, destination_has_elevator \in BOOLEAN :
        /\ call = NoCall
        /\ call' = [op |-> "calculate_floor_surcharge",
                    args |-> [base_cost_min |-> base_cost_min,
                              base_cost_max |-> base_cost_max,
                              origin_floor |-> origin_floor,
                              destination_floor |-> destination_floor,
                              origin_has_elevator |-> origin_has_elevator,
                              destination_has_elevator |-> destination_has_elevator],
                    ret |-> calculate_floor_surcharge(engine, base_cost_min,
                                base_cost_max, origin_floor, destination_floor,
                                origin_has_elevator, destination_has_elevator)]
        /\ UNCHANGED <<engine, inflight, web>>

GetRegionalMultiplier ==
    \E postal_code \in PostalCodes :
        /\ call = NoCall
        /\ call' = [op |-> "get_regional_multiplier",
                    args |-> [postal_code |-> postal_code],
                    ret |-> get_regional_multiplier(engine, postal_code)]
        /\ UNCHANGED <<engine, inflight, web>>

GetSeasonalMultiplier ==
    \E moving_date \in Dates :
        /\ call = NoCall
        /\ call' = [op |-> "get_seasonal_multiplier",
                    args |-> [moving_date |-> moving_date],
                    ret |-> get_seasonal_multiplier(engine, moving_date)]
        /\ UNCHANGED <<engine, inflight, web>>

GetWeekendHolidaySurcharge ==
    \E moving_date \in Dates :
        /\ call = NoCall
        /\ call' = [op |-> "get_weekend_holiday_surcharge",
                    args |-> [moving_date |-> moving_date],
                    ret |-> get_weekend_holiday_surcharge(engine, moving_date)]
        /\ UNCHANGED <<engine, inflight, web>>

\* the caller takes the result; the engine can be called again
Return ==
    /\ call # NoCall
    /\ call' = NoCall
    /\ UNCHANGED <<engine, inflight, web>>

Next ==
    \/ Construct
    \/ GenerateQuote
    \/ CalculateManHours
    \/ DetermineCrewSize
    \/ CalculateDistanceCost
    \/ CalculateServicesCost
    \/ CalculateHeavyItemSurcharges
    \/ CalculateVolume
    \/ CalculateFloorSurcharge
    \/ GetRegionalMultiplier
    \/ GetSeasonalMultiplier
    \/ GetWeekendHolidaySurcharge
    \/ Return

Spec == Init /\ [][Next]_vars

(***************************************************************************)
(* generate_quote called from several requests at once on one engine       *)
(* (api/v1/quote.py calls the shared pricing_engine with no lock).  A call *)
(* is taken in three steps, in the order of the code, and the steps of the *)
(* calls interleave freely; each step reads self and writes locals.        *)
(***************************************************************************)
\* regional and seasonal pricing off, and on
ConcurrentEngines == {TestConfig, StackingConfig}

\* a small move on a holiday from Munich, a large one on a Saturday in July
\* with stairs, services and a piano, and a move with defaults only
ConcurrentRequests ==
    {[DefaultRequest(Dec(75, 1), D(80)) EXCEPT
          !.origin_postal_code = <<"8", "0", "3", "3", "1">>,
          !.moving_date = Date(2026, 10, 3)],
     [DefaultRequest(D(45), D(80)) EXCEPT
          !.origin_floor = MaxFloor, !.travel_time_hours = D(4),
          !.services = <<Service("disassembly", TRUE, NoMetadata),
                         Service("packing", FALSE, NoMetadata)>>,
          !.moving_date = Date(2025, 7, 5),
          !.inventory =
              <<Item(<<"G", "r", "a", "n", "d", " ", "P", "i", "a", "n", "o">>,
                     <<>>, D(2), 1)>>],
     DefaultRequest(D(20), D(30))}

Running(slot) == slot.pc \in {"effort", "costs", "price"}

\* thread t takes a step that leaves its call as `slot`: the calls running
\* at that moment, and the one of t, have overlapped if there is any
Step(t, slot) ==
    [u \in Threads |->
        IF u = t
        THEN [slot EXCEPT !.overlap =
                  @ \/ \E v \in Threads \ {t} : Running(inflight[v])]
        ELSE IF Running(inflight[u]) THEN [inflight[u] EXCEPT !.overlap = TRUE]
        ELSE inflight[u]]

ConcurrentInit ==
    /\ engine \in ConcurrentEngines
    /\ call = NoCall
    /\ inflight = [t \in Threads |-> Idle]
    /\ NoWeb

\* a request handler calls generate_quote
BeginQuote ==
    \E t \in Threads, r \in ConcurrentRequests :
        /\ ~Running(inflight[t])
        /\ inflight' = Step(t, [Idle EXCEPT !.pc = "effort", !.args = r,
                                            !.on = engine])
        /\ UNCHANGED <<engine, call, web>>

\* QuoteEffort keeping the crew it computed in self.min_movers
QuoteEffort_caching_crew ==
    \E t \in Threads :
        /\ inflight[t].pc = "effort"
        /\ inflight' = Step(t, [inflight[t] EXCEPT
                                    !.pc = "costs",
                                    !.e = quote_effort(engine, inflight[t].args)])
        /\ engine' = [engine EXCEPT !.min_movers =
                          quote_effort(engine, inflight[t].args).crew_size]
        /\ UNCHANGED <<call, web>>

\* lines 310-324
QuoteEffort ==
    \E t \in Threads :
        /\ inflight[t].pc = "effort"
        /\ inflight' = Step(t, [inflight[t] EXCEPT
                                    !.pc = "costs",
                                    !.e = quote_effort(engine, inflight[t].args)])
        /\ UNCHANGED <<engine, call, web>>

\* lines 328-341
QuoteCosts ==
    \E t \in Threads :
        /\ inflight[t].pc = "costs"
        /\ inflight' =
               Step(t, [inflight[t] EXCEPT
                   !.pc = "price",
                   !.c = quote_costs(engine, inflight[t].args,
                                     inflight[t].e.man_hours),
                   !.f = calculate_floor_surcharge(engine,
                             DAdd(DMul(inflight[t].args.volume,
                                       engine.base_rate_m3_min),
                                  DMul(inflight[t].e.man_hours,
                                       engine.hourly_labor_min)),
                             DAdd(DMul(inflight[t].args.volume,
                                       engine.base_rate_m3_max),
                                  DMul(inflight[t].e.man_hours,
                                       engine.hourly_labor_max)),
                             inflight[t].args.origin_floor,
                             inflight[t].args.destination_floor,
                             inflight[t].args.origin_has_elevator,
                             inflight[t].args.destination_has_elevator)])
        /\ UNCHANGED <<engine, call, web>>

\* QuotePrice keeping the percent of the date in self.holiday_surcharge_percent
QuotePrice_keeping_percent ==
    \E t \in Threads :
        /\ inflight[t].pc = "price"
        /\ inflight' =
               Step(t, [inflight[t] EXCEPT
                   !.pc = "done",
                   !.ret = quote_with_surcharge(engine, inflight[t].args,
                               inflight[t].e, inflight[t].c, inflight[t].f,
                               quote_multipliers(engine, inflight[t].args))])
        /\ engine' = [engine EXCEPT !.holiday_surcharge_percent =
                          quote_multipliers(engine, inflight[t].args).weekend_holiday]
        /\ UNCHANGED <<call, web>>

\* lines 343-405
QuotePrice ==
    \E t \in Threads :
        /\ inflight[t].pc = "price"
        /\ inflight' =
               Step(t, [inflight[t] EXCEPT
                   !.pc = "done",
                   !.ret = quote_with_surcharge(engine, inflight[t].args,
                               inflight[t].e, inflight[t].c, inflight[t].f,
                               quote_multipliers(engine, inflight[t].args))])
        /\ UNCHANGED <<engine, call, web>>

ConcurrentNext ==
    \/ BeginQuote
    \/ QuoteEffort
    \/ QuoteCosts
    \/ QuotePrice

ConcurrentSpec == ConcurrentInit /\ [][ConcurrentNext]_vars

(***************************************************************************)
(* Properties of generate_quote.  The predicates on the engine and on the  *)
(* request are the preconditions the properties are stated under.          *)
(***************************************************************************)
IsQuote == call.op = "generate_quote"

\* volume >= 0, distance >= 0 and floors >= 0
NonNegativeRequest(r) ==
    /\ DLe(D(0), r.volume)
    /\ DLe(D(0), r.distance_km)
    /\ r.origin_floor >= 0
    /\ r.destination_floor >= 0

\* the rates, percentages, multipliers and the VAT rate of a RateConfig
RatesOf(s) ==
    {s.base_rate_m3_min, s.base_rate_m3_max, s.rate_km_near, s.rate_km_far,
     s.hourly_labor_min, s.hourly_labor_max, s.floor_surcharge_percent,
     s.hvz_permit_cost, s.kitchen_assembly_per_meter, s.external_lift_cost_min,
     s.external_lift_cost_max, s.vat_rate, s.seasonal_peak_multiplier,
     s.seasonal_offpeak_multiplier, s.weekend_surcharge_percent,
     s.holiday_surcharge_percent, s.packing_materials_per_m3,
     s.long_carry_per_10m, s.disposal_base_cost, s.disposal_per_m3,
     s.insurance_basic_flat, s.insurance_premium_percent,
     s.insurance_premium_min}
    \cup {s.regional_multipliers[g] : g \in DOMAIN s.regional_multipliers}
    \cup {s.heavy_item_surcharges[i][2] : i \in DOMAIN s.heavy_item_surcharges}

NonNegativeRates(s) == \A x \in RatesOf(s) : DLe(D(0), x)

\* no min rate exceeds the matching max rate
MinRatesBelowMax(s) ==
    /\ DLe(s.base_rate_m3_min, s.base_rate_m3_max)
    /\ DLe(s.hourly_labor_min, s.hourly_labor_max)
    /\ DLe(s.external_lift_cost_min, s.external_lift_cost_max)

MinAtMostMax(q) ==
    /\ DLe(q.min_price, q.max_price)
    /\ DLe(q.min_price_netto, q.max_price_netto)

GrossIsNetPlusVat ==
    IsQuote =>
        /\ call.ret.min_price
             = DAdd(call.ret.min_price_netto, call.ret.vat_amount.min)
        /\ call.ret.max_price
             = DAdd(call.ret.max_price_netto, call.ret.vat_amount.max)

\* a quote at the reduced VAT rate with a VAT amount above zero that differs
\* between min and max
GrossIsNetPlusVat_Witness ==
    /\ IsQuote
    /\ engine.vat_rate = Dec(7, 2)
    /\ DLt(D(0), call.ret.vat_amount.min)
    /\ DLt(call.ret.vat_amount.min, call.ret.vat_amount.max)
    /\ DLt(call.ret.min_price_netto, call.ret.min_price)

\* the six components of a quote and their sum before any multiplier
\* (i = 1 for min, 2 for max), from the methods that compute them
component_costs(s, r) == quote_costs(s, r, quote_effort(s, r).man_hours)

component_floor(s, r) ==
    calculate_floor_surcharge(s,
        DAdd(component_costs(s, r).volume_cost[1],
             component_costs(s, r).labor_cost[1]),
        DAdd(component_costs(s, r).volume_cost[2],
             component_costs(s, r).labor_cost[2]),
        r.origin_floor, r.destination_floor, r.origin_has_elevator,
        r.destination_has_elevator)

component_sum(s, r, i) ==
    netto_sum(component_costs(s, r), component_floor(s, r), i)

\* the sum times regional x seasonal, then times (1 + weekend/holiday percent)
fixed_order_product(s, r, i) ==
    DMul(DMul(component_sum(s, r, i),
              DMul(quote_multipliers(s, r).regional,
                   quote_multipliers(s, r).seasonal)),
         DAdd(D(1), quote_multipliers(s, r).weekend_holiday))

TwoDecimals(x) == DRound(x, 2) = x

\* C3: in every result of generate_quote the net prices have 2 decimals, and
\* vat_amount.min is the net min times vat_rate rounded to 2 decimals, and
\* likewise for max: VAT is computed from the rounded net price.
VatOfRoundedNet ==
    IsQuote =>
        /\ TwoDecimals(call.ret.min_price_netto)
        /\ TwoDecimals(call.ret.max_price_netto)
        /\ call.ret.vat_amount.min
             = DRound(DMul(call.ret.min_price_netto, engine.vat_rate), 2)
        /\ call.ret.vat_amount.max
             = DRound(DMul(call.ret.max_price_netto, engine.vat_rate), 2)

\* a quote whose unrounded net price has more than 2 decimals and would give
\* another VAT amount than the rounded one
VatOfRoundedNet_Witness ==
    /\ IsQuote
    /\ ~TwoDecimals(fixed_order_product(engine, call.args, 1))
    /\ DRound(DMul(fixed_order_product(engine, call.args, 1), engine.vat_rate), 2)
         # call.ret.vat_amount.min
    /\ call.ret.vat_amount.min
         = DRound(DMul(call.ret.min_price_netto, engine.vat_rate), 2)

\* C4: the net price is the sum of the six unrounded components, times
\* regional x seasonal, then times (1 + weekend/holiday percent), and only
\* then rounded to 2 decimals.
NetPriceInFixedOrder ==
    IsQuote =>
        /\ call.ret.min_price_netto
             = DRound(fixed_order_product(engine, call.args, 1), 2)
        /\ call.ret.max_price_netto
             = DRound(fixed_order_product(engine, call.args, 2), 2)

(***************************************************************************)
(* Properties of the constructor                                           *)
(***************************************************************************)
IsConstruction == call.op = "__init__"

\* the value of an override map can be coerced to the type its parameter
\* expects: a number, a boolean, a mapping or a list
Coercible(p, value) ==
    IF p[4] \in {"_d", "int"} THEN value.kind \in {"number", "numeric_text"}
    ELSE IF p[1] \in {"enable_regional", "enable_seasonal"}
         THEN value.kind = "bool"
    ELSE IF p[1] \in {"regional_multipliers", "heavy_item_surcharges"}
         THEN value.kind = "mapping"
    ELSE value.kind = "list"

\* some value the map provides for a parameter cannot be coerced
Malformed(cfg) ==
    \E i \in DOMAIN Parameters :
        /\ Parameters[i][2] \in DOMAIN cfg
        /\ ~Coercible(Parameters[i], cfg[Parameters[i][2]])

\* the value the parameter is to have: the override if its key is present,
\* the default if not, as the number or the object it stands for
EffectiveValue(cfg, p) ==
    LET value == IF p[2] \in DOMAIN cfg THEN cfg[p[2]]
                 ELSE IF p[3] \in DOMAIN Settings THEN Settings[p[3]]
                 ELSE Number(Dec(19, 2))
    IN IF p[4] = "_d" THEN _d(value).value
       ELSE IF p[4] = "int" THEN int(value).value
       ELSE value

\* C5: constructing a PricingEngine from an absent or empty override map
\* succeeds and gives every parameter its default; from a non-empty map each
\* parameter gets override[key] when the key is present and the default when
\* it is absent, and keys that name no parameter have no effect.
ConstructorDefaultsAndOverrides ==
    (IsConstruction /\ ~Malformed(call.args)) =>
        /\ call.ret.error = ""
        /\ DOMAIN call.ret.attrs = {Parameters[i][1] : i \in DOMAIN Parameters}
        /\ \A i \in DOMAIN Parameters :
               /\ Parameters[i][3] \in DOMAIN Settings \cup {"VAT_RATE"}
               /\ call.ret.attrs[Parameters[i][1]]
                    = EffectiveValue(call.args, Parameters[i])

\* C6: constructing a PricingEngine fails with ConfigError exactly when some
\* provided override value cannot be coerced to its expected numeric,
\* boolean or mapping type; no engine is built from a malformed value.
ConstructorFailsWithConfigError ==
    IsConstruction =>
        ((call.ret.error = "ConfigError") <=> Malformed(call.args))

\* C7: generate_quote rejects a negative volume, a negative distance or a
\* negative floor with a ValidationError and returns no price at all.
NegativeInputsRejected ==
    (IsQuote /\ ~NonNegativeRequest(call.args)) =>
        /\ DOMAIN call.ret = {"error"}
        /\ call.ret.error = "ValidationError"

(***************************************************************************)
(* Properties of the crew, the effort and the distance cost                *)
(***************************************************************************)
\* 2 movers below 20 m3, 3 from 20 m3 on, 4 from 45 m3 on
CrewForVolume(volume) ==
    2 + (IF DLe(D(20), volume) THEN 1 ELSE 0)
      + (IF DLe(D(45), volume) THEN 1 ELSE 0)

ExpectedCrew(s, volume) ==
    IF CrewForVolume(volume) >= s.min_movers THEN CrewForVolume(volume)
    ELSE s.min_movers

\* C8: determine_crew_size(volume) = max(n, min_movers) with n = 2 for
\* volume < 20, 3 for 20 <= volume < 45 and 4 for volume >= 45; the crew of
\* a quote is that of its volume whatever the floors, the services and the
\* effort; the crew is at least min_movers and at least 1.
CrewSizeIsStepOfVolume ==
    /\ call.op = "determine_crew_size" =>
           /\ call.ret = ExpectedCrew(engine, call.args.volume)
           /\ call.ret >= engine.min_movers
           /\ call.ret >= 1
    /\ IsQuote =>
           /\ call.ret.breakdown.crew_size
                = ExpectedCrew(engine, call.args.volume)
           /\ call.ret.breakdown.crew_size >= engine.min_movers
           /\ call.ret.breakdown.crew_size >= 1

\* the crew at the threshold of 20 m3, under a minimum below it
CrewSizeIsStepOfVolume_Witness ==
    /\ call.op = "determine_crew_size"
    /\ call.args.volume = D(20)
    /\ engine.min_movers = 2
    /\ call.ret = 3

\* the stairs effort of one endpoint
StairsOf(floor, has_elevator, volume) ==
    IF has_elevator \/ floor <= 0 THEN D(0)
    ELSE DMul(DMul(D(floor), volume), Dec(2, 2))

\* C9: calculate_man_hours returns max(0.12 x volume + stairs + service, 4):
\* stairs adds floor x volume x 0.02 for each endpoint without elevator and
\* with floor > 0, service adds 0.15 x volume for disassembly and
\* 0.25 x volume for packing; the result is never below 4.
ManHoursFormula ==
    call.op = "calculate_man_hours" =>
        /\ call.ret
             = DMax(DAdd(DAdd(DMul(Dec(12, 2), call.args.volume),
                              DAdd(StairsOf(call.args.origin_floor,
                                            call.args.origin_has_elevator,
                                            call.args.volume),
                                   StairsOf(call.args.destination_floor,
                                            call.args.destination_has_elevator,
                                            call.args.volume))),
                         DAdd(IF call.args.has_disassembly
                              THEN DMul(Dec(15, 2), call.args.volume) ELSE D(0),
                              IF call.args.has_packing
                              THEN DMul(Dec(25, 2), call.args.volume) ELSE D(0))),
                    D(4))
        /\ DLe(D(4), call.ret)

\* stairs at the origin, an elevator at the destination above the ground
\* floor, packing, and an effort above the 4 hours
ManHoursFormula_Witness ==
    /\ call.op = "calculate_man_hours"
    /\ ~call.args.origin_has_elevator /\ call.args.origin_floor > 0
    /\ call.args.destination_has_elevator /\ call.args.destination_floor > 0
    /\ call.args.has_packing
    /\ DLt(D(4), call.ret)

\* base x 0.9 and base x 1.1, base as C10 gives it
DistanceBounds(s, distance_km) ==
    LET base == IF DLe(distance_km, s.km_threshold)
                THEN DMul(distance_km, s.rate_km_near)
                ELSE DAdd(DMul(s.km_threshold, s.rate_km_near),
                          DMul(DSub(distance_km, s.km_threshold), s.rate_km_far))
    IN <<DMul(Dec(9, 1), base), DMul(Dec(11, 1), base)>>

ZeroAtZeroAndSpread(s, distance_km, bounds) ==
    /\ distance_km = D(0) => bounds = <<D(0), D(0)>>
    /\ (/\ DLt(D(0), distance_km)
        /\ DLt(D(0), s.rate_km_near)
        /\ DLt(D(0), s.rate_km_far))
       => DLt(bounds[1], bounds[2])

ExtraFloors(floor, has_elevator) ==
    IF has_elevator \/ floor <= 2 THEN 0 ELSE floor - 2

TotalExtraFloors(r) ==
    ExtraFloors(r.origin_floor, r.origin_has_elevator)
        + ExtraFloors(r.destination_floor, r.destination_has_elevator)

\* volume cost + labor cost (i = 1 for min, 2 for max); the labor cost is
\* that of the man-hours of the quote, stairs included
FloorBase(s, r, i) ==
    DAdd(component_costs(s, r).volume_cost[i], component_costs(s, r).labor_cost[i])

\* C11: the floor surcharge of a quote is (volume cost + labor cost) x
\* floor_surcharge_percent x total_extra_floors for min and for max, where
\* total_extra_floors sums (floor - 2) over the endpoints without elevator
\* and with floor > 2; it is (0, 0) when total_extra_floors is 0.
FloorSurchargeOfQuote ==
    IsQuote =>
        /\ call.ret.breakdown.floor_surcharge.min
             = DRound(DMul(DMul(FloorBase(engine, call.args, 1),
                                engine.floor_surcharge_percent),
                           D(TotalExtraFloors(call.args))), 2)
        /\ call.ret.breakdown.floor_surcharge.max
             = DRound(DMul(DMul(FloorBase(engine, call.args, 2),
                                engine.floor_surcharge_percent),
                           D(TotalExtraFloors(call.args))), 2)
        /\ TotalExtraFloors(call.args) = 0
           => /\ call.ret.breakdown.floor_surcharge.min = D(0)
              /\ call.ret.breakdown.floor_surcharge.max = D(0)

\* a quote with stairs above the second floor at the origin, an elevator
\* above the second floor at the destination, a distance and a surcharge
FloorSurchargeOfQuote_Witness ==
    /\ IsQuote
    /\ call.args.origin_floor > 2 /\ ~call.args.origin_has_elevator
    /\ call.args.destination_floor > 2 /\ call.args.destination_has_elevator
    /\ DLt(D(0), call.args.distance_km)
    /\ DLt(D(0), call.ret.breakdown.floor_surcharge.min)
    /\ DLt(call.ret.breakdown.floor_surcharge.min,
           call.ret.breakdown.floor_surcharge.max)

IsServicesCost == call.op = "calculate_services_cost"

Metadata(service, key) ==
    IF key \in DOMAIN service.metadata THEN service.metadata[key] ELSE D(0)

\* the units of 10 m a carry distance is charged: 0 up to 10 m, k in the
\* band (10 + 10(k-1), 10 + 10k]
LongCarryUnits(distance_m) ==
    CHOOSE k \in 0..(MaxCarrySteps + 2) :
        IF DLe(distance_m, D(10)) THEN k = 0
        ELSE k > 0 /\ DLt(D(10 * k), distance_m) /\ DLe(distance_m, D(10 * k + 10))

Same(c) == <<c, c>>

\* the rule of a type of service
ServiceRule(s, service, volume) ==
    IF service.service_type = "hvz_permit" THEN Same(s.hvz_permit_cost)
    ELSE IF service.service_type = "kitchen_assembly"
         THEN Same(DMul(Metadata(service, "kitchen_meters"),
                        s.kitchen_assembly_per_meter))
    ELSE IF service.service_type = "external_lift"
         THEN <<s.external_lift_cost_min, s.external_lift_cost_max>>
    ELSE IF service.service_type = "packing"
         THEN Same(DMul(volume, s.packing_materials_per_m3))
    ELSE IF service.service_type = "disposal"
         THEN Same(DAdd(s.disposal_base_cost,
                        DMul(Metadata(service, "disposal_m3"), s.disposal_per_m3)))
    ELSE IF service.service_type = "insurance_basic"
         THEN Same(s.insurance_basic_flat)
    ELSE IF service.service_type = "insurance_premium"
         THEN Same(DMax(DMul(Metadata(service, "declared_value"),
                             s.insurance_premium_percent),
                        s.insurance_premium_min))
    ELSE IF service.service_type = "long_carry"
         THEN Same(DMul(D(LongCarryUnits(Metadata(service, "carry_distance_m"))),
                        s.long_carry_per_10m))
    ELSE <<D(0), D(0)>>

\* the sum of the rules of the enabled services, from service i on
RECURSIVE SumOfRules(_, _, _, _)
SumOfRules(s, services, volume, i) ==
    IF i > Len(services) THEN <<D(0), D(0)>>
    ELSE IF ~services[i].enabled THEN SumOfRules(s, services, volume, i + 1)
    ELSE <<DAdd(ServiceRule(s, services[i], volume)[1],
                SumOfRules(s, services, volume, i + 1)[1]),
           DAdd(ServiceRule(s, services[i], volume)[2],
                SumOfRules(s, services, volume, i + 1)[2])>>

HasEnabled(services, t) ==
    {i \in DOMAIN services : services[i].enabled /\ services[i].service_type = t}
        # {}

\* C12: calculate_services_cost returns the sum, over the enabled services,
\* of the rule of their type; disabled services, disassembly and unknown
\* types add (0, 0); the man-hours of a quote count disassembly and packing
\* only when an enabled service of that type is in the list.
ServicesCostIsSumOfRules ==
    /\ IsServicesCost =>
           call.ret = SumOfRules(engine, call.args.services, call.args.volume, 1)
    /\ IsQuote =>
           call.ret.breakdown.man_hours
             = DRound(calculate_man_hours(
                          call.args.volume, call.args.origin_floor,
                          call.args.destination_floor,
                          call.args.origin_has_elevator,
                          call.args.destination_has_elevator,
                          HasEnabled(call.args.services, "disassembly"),
                          HasEnabled(call.args.services, "packing")), 1)

\* a list with a disabled external lift and an enabled service that costs
ServicesCostIsSumOfRules_Witness ==
    /\ IsServicesCost
    /\ \E i \in DOMAIN call.args.services :
           /\ ~call.args.services[i].enabled
           /\ call.args.services[i].service_type = "external_lift"
    /\ \E i \in DOMAIN call.args.services : call.args.services[i].enabled
    /\ DLt(D(0), engine.external_lift_cost_min)
    /\ DLt(D(0), call.ret[1])
    /\ call.ret[1] = call.ret[2]

IsLongCarry ==
    /\ IsServicesCost
    /\ Len(call.args.services) = 1
    /\ call.args.services[1].enabled
    /\ call.args.services[1].service_type = "long_carry"

\* C13: the long-carry cost is ceiling(max(carry_distance - 10, 0) / 10) x
\* the rate per unit: 0 up to 10 m, and k units for every distance in the
\* band (10 + 10(k-1), 10 + 10k].
LongCarryBands ==
    IsLongCarry =>
        /\ call.ret
             = Same(DMul(D(LongCarryUnits(
                               Metadata(call.args.services[1], "carry_distance_m"))),
                         engine.long_carry_per_10m))
        /\ DLe(Metadata(call.args.services[1], "carry_distance_m"), D(10))
           => call.ret = Same(D(0))
        /\ (/\ DLt(D(20), Metadata(call.args.services[1], "carry_distance_m"))
            /\ DLe(Metadata(call.args.services[1], "carry_distance_m"), D(30)))
           => call.ret = Same(DMul(D(2), engine.long_carry_per_10m))

\* a carry of 22.5 m, inside the band of 2 units, at a positive rate
LongCarryBands_Witness ==
    /\ IsLongCarry
    /\ Metadata(call.args.services[1], "carry_distance_m") = Dec(225, 1)
    /\ DLt(D(0), engine.long_carry_per_10m)
    /\ call.ret[1] = DMul(D(2), engine.long_carry_per_10m)

\* the keyword matches the item: a case-insensitive substring match against
\* its name or its category
KeywordMatches(keyword, item) ==
    \/ Contains(lower(keyword), lower(item.name))
    \/ Contains(lower(keyword), lower(item.category))

\* surcharge x quantity of the first keyword of the table that matches
ItemSurcharge(table, item) ==
    IF \E i \in DOMAIN table : KeywordMatches(table[i][1], item)
    THEN LET first == CHOOSE i \in DOMAIN table :
                          /\ KeywordMatches(table[i][1], item)
                          /\ \A j \in 1..(i - 1) : ~KeywordMatches(table[j][1], item)
         IN DMul(table[first][2], D(item.quantity))
    ELSE D(0)

RECURSIVE SumOfSurcharges(_, _, _)
SumOfSurcharges(table, inventory, i) ==
    IF i > Len(inventory) THEN D(0)
    ELSE DAdd(ItemSurcharge(table, inventory[i]),
              SumOfSurcharges(table, inventory, i + 1))

\* C14: calculate_heavy_item_surcharges returns the sum over the items of
\* surcharge(k) x quantity, k the first keyword of the table, in its order,
\* that matches the item's name or category as a case-insensitive
\* substring; an item matching none adds 0 and an empty inventory gives 0.
HeavyItemFirstMatch ==
    call.op = "calculate_heavy_item_surcharges" =>
        call.ret = SumOfSurcharges(engine.heavy_item_surcharges,
                                   call.args.inventory, 1)

(***************************************************************************)
(* Properties of the multipliers and of the duration                       *)
(***************************************************************************)
\* the multiplier of one postal code: 1.0 when regional pricing is off, the
\* region of the two-character prefix, and the "default" region for an
\* unset postal code or a prefix of no region
RegionalOf(s, postal_code) ==
    IF ~s.enable_regional THEN D(1)
    ELSE IF postal_code = None \/ SubSeq(postal_code, 1, 2) \notin DOMAIN region_map
         THEN s.regional_multipliers["default"]
    ELSE s.regional_multipliers[region_map[SubSeq(postal_code, 1, 2)]]

\* C15: the regional multiplier of a quote is the larger of the multipliers
\* of the origin and of the destination postal code; 1.0 when regional
\* pricing is disabled, and the configured multiplier of the "default"
\* region for an unset postal code or an unmatched prefix when it is enabled.
RegionalIsLargerOfEndpoints ==
    IsQuote =>
        call.ret.multipliers.regional
          = DMax(RegionalOf(engine, call.args.origin_postal_code),
                 RegionalOf(engine, call.args.destination_postal_code))

\* the percent of a date: the holiday is looked up first
SurchargeOf(s, moving_date) ==
    IF moving_date = None THEN D(0)
    ELSE IF <<moving_date[1].month, moving_date[1].day>> \in GERMAN_FIXED_HOLIDAYS
         THEN s.holiday_surcharge_percent
    ELSE IF weekday(moving_date[1]) \in {5, 6} THEN s.weekend_surcharge_percent
    ELSE D(0)

\* C16: the weekend/holiday percent of a quote is the holiday percent on a
\* fixed holiday, whatever its day of the week, the weekend percent on a
\* Saturday or Sunday that is no holiday, and 0 on any other day and when
\* no date is given.
HolidayBeforeWeekend ==
    IsQuote =>
        /\ call.ret.multipliers.weekend_holiday
             = SurchargeOf(engine, call.args.moving_date)
        /\ call.args.moving_date = Date(2026, 10, 3)
           => call.ret.multipliers.weekend_holiday = engine.holiday_surcharge_percent
        /\ call.args.moving_date = Date(2025, 7, 5)
           => call.ret.multipliers.weekend_holiday = engine.weekend_surcharge_percent
        /\ call.args.moving_date = Date(2025, 3, 12)
           => call.ret.multipliers.weekend_holiday = D(0)

\* a quote for the 3rd of October 2026, a holiday on a Saturday, on an engine
\* whose two percents differ
HolidayBeforeWeekend_Witness ==
    /\ IsQuote
    /\ call.args.moving_date = Date(2026, 10, 3)
    /\ weekday(call.args.moving_date[1]) = 5
    /\ engine.holiday_surcharge_percent # engine.weekend_surcharge_percent
    /\ call.ret.multipliers.weekend_holiday = engine.holiday_surcharge_percent

\* C17: the seasonal multiplier of a quote is 1.0 when seasonal pricing is
\* disabled or no date is given, the peak multiplier for a month of the
\* peak set, the off-peak multiplier for a month of the off-peak set only,
\* and 1.0 for any other month.
SeasonalPeakFirst ==
    IsQuote =>
        /\ (~engine.enable_seasonal \/ call.args.moving_date = None)
           => call.ret.multipliers.seasonal = D(1)
        /\ (engine.enable_seasonal /\ call.args.moving_date # None)
           => \/ /\ call.args.moving_date[1].month \in engine.seasonal_peak_months
                 /\ call.ret.multipliers.seasonal = engine.seasonal_peak_multiplier
              \/ /\ call.args.moving_date[1].month \notin engine.seasonal_peak_months
                 /\ call.args.moving_date[1].month \in engine.seasonal_offpeak_months
                 /\ call.ret.multipliers.seasonal = engine.seasonal_offpeak_multiplier
              \/ /\ call.args.moving_date[1].month \notin engine.seasonal_peak_months
                 /\ call.args.moving_date[1].month \notin engine.seasonal_offpeak_months
                 /\ call.ret.multipliers.seasonal = D(1)

\* a quote for a month that is in both sets, with two different multipliers
SeasonalPeakFirst_Witness ==
    /\ IsQuote
    /\ engine.enable_seasonal
    /\ call.args.moving_date # None
    /\ call.args.moving_date[1].month
         \in engine.seasonal_peak_months \cap engine.seasonal_offpeak_months
    /\ engine.seasonal_peak_multiplier # engine.seasonal_offpeak_multiplier
    /\ call.ret.multipliers.seasonal = engine.seasonal_peak_multiplier

DAbs(d) == IF DSign(d) < 0 THEN DNeg(d) ELSE d

\* the travel time of the truck: 1.15 times that of a car, and a break of
\* 0.75 h when that is more than 4.5 h
TruckTime(raw) ==
    IF DLt(Dec(45, 1), DMul(raw, Dec(115, 2)))
    THEN DAdd(DMul(raw, Dec(115, 2)), Dec(75, 2))
    ELSE DMul(raw, Dec(115, 2))

\* C18: the estimated duration of a quote is man_hours / crew_size +
\* truck_time, reported to one decimal: only the man-hours are divided by
\* the crew, and truck_time is 1.15 x the travel time, plus one break of
\* 0.75 h exactly when 1.15 x the travel time exceeds 4.5 h.
DurationIsLoadingPlusTruck ==
    IsQuote =>
        /\ call.ret.breakdown.travel_time
             = DRound(TruckTime(call.args.travel_time_hours), 1)
        /\ DRound(call.ret.estimated_hours, 1) = call.ret.estimated_hours
        \* | E - (man_hours / crew + truck) | <= 0.05, times the crew
        /\ DLe(DAbs(DSub(DMul(call.ret.estimated_hours,
                              D(call.ret.breakdown.crew_size)),
                         DAdd(quote_effort(engine, call.args).man_hours,
                              DMul(TruckTime(call.args.travel_time_hours),
                                   D(call.ret.breakdown.crew_size))))),
               DMul(Dec(5, 2), D(call.ret.breakdown.crew_size)))

\* a quote with a crew of more than two and a travel time of 3.92 h: 4.508 h
\* for the truck, over the limit, 5.258 h with the break
DurationIsLoadingPlusTruck_Witness ==
    /\ IsQuote
    /\ call.args.travel_time_hours = Dec(392, 2)
    /\ call.ret.breakdown.crew_size > 2
    /\ call.ret.breakdown.travel_time = Dec(53, 1)
    /\ DLt(D(0), call.ret.breakdown.man_hours)

(***************************************************************************)
(* Properties of repeated and of concurrent calls                          *)
(***************************************************************************)
Done(t) == inflight[t].pc = "done"

ConcurrentQuotesAsAlone ==
    /\ [](\A t \in Threads :
            Done(t) => inflight[t].ret = generate_quote(inflight[t].on,
                                                        inflight[t].args))
    /\ [][engine' = engine]_vars

\* two finished calls with different arguments and results whose steps
\* were interleaved
ConcurrentQuotesAsAlone_Witness ==
    /\ Done(1) /\ Done(2)
    /\ inflight[1].args # inflight[2].args
    /\ inflight[1].overlap /\ inflight[2].overlap
    /\ inflight[1].ret # inflight[2].ret

(***************************************************************************)
(* Properties of the returned result as a whole                            *)
(***************************************************************************)
\* the six components of the returned breakdown, added up (b is "min" or "max")
BreakdownSum(q, b) ==
    DAdd(DAdd(DAdd(DAdd(DAdd(q.breakdown.volume_cost[b],
                             q.breakdown.distance_cost[b]),
                        q.breakdown.labor_cost[b]),
                   q.breakdown.floor_surcharge[b]),
              q.breakdown.services_cost[b]),
         q.breakdown.heavy_item_surcharge)

\* C21: every net total can be audited from the returned result alone: the
\* sum of the six components of the breakdown times multipliers.combined,
\* rounded to 2 decimals, is min_price_netto over the min values and
\* max_price_netto over the max values.
NetAuditableFromResult ==
    IsQuote =>
        /\ DRound(DMul(BreakdownSum(call.ret, "min"),
                       call.ret.multipliers.combined), 2)
             = call.ret.min_price_netto
        /\ DRound(DMul(BreakdownSum(call.ret, "max"),
                       call.ret.multipliers.combined), 2)
             = call.ret.max_price_netto

\* the metadata of every service of the list is >= 0
NonNegativeMetadata(services) ==
    \A i \in DOMAIN services :
        \A k \in DOMAIN services[i].metadata : DLe(D(0), services[i].metadata[k])

\* net, VAT and gross min/max and every component of the breakdown
MoneyOf(q) ==
    {q.min_price, q.max_price, q.min_price_netto, q.max_price_netto,
     q.vat_amount.min, q.vat_amount.max,
     q.breakdown.volume_cost.min, q.breakdown.volume_cost.max,
     q.breakdown.distance_cost.min, q.breakdown.distance_cost.max,
     q.breakdown.labor_cost.min, q.breakdown.labor_cost.max,
     q.breakdown.floor_surcharge.min, q.breakdown.floor_surcharge.max,
     q.breakdown.services_cost.min, q.breakdown.services_cost.max,
     q.breakdown.heavy_item_surcharge}

MinAtMostMaxAtEveryStage(q) ==
    /\ DLe(q.breakdown.volume_cost.min, q.breakdown.volume_cost.max)
    /\ DLe(q.breakdown.distance_cost.min, q.breakdown.distance_cost.max)
    /\ DLe(q.breakdown.labor_cost.min, q.breakdown.labor_cost.max)
    /\ DLe(q.breakdown.floor_surcharge.min, q.breakdown.floor_surcharge.max)
    /\ DLe(q.breakdown.services_cost.min, q.breakdown.services_cost.max)
    /\ DLe(q.min_price_netto, q.max_price_netto)
    /\ DLe(q.vat_amount.min, q.vat_amount.max)
    /\ DLe(q.min_price, q.max_price)

\* C25: min <= max holds at every stage of the calculation (volume cost,
\* distance cost, labor cost, floor surcharge, services cost, net, VAT,
\* gross) for every RateConfig, out-of-range values included: a negative
\* rate, a negative multiplier, a min rate above its max rate.
MinAtMostMaxForAnyRateConfig ==
    (IsQuote /\ NonNegativeRequest(call.args))
        => MinAtMostMaxAtEveryStage(call.ret)

\* the smallest volume of the calls above v, and v itself if there is none
NextVolume(v) ==
    IF \E w \in QuoteVolumes : DLt(v, w)
    THEN CHOOSE w \in QuoteVolumes :
             DLt(v, w) /\ \A x \in QuoteVolumes : DLt(v, x) => DLe(w, x)
    ELSE v

NextDistance(d) ==
    IF \E w \in QuoteDistances : DLt(d, w)
    THEN CHOOSE w \in QuoteDistances :
             DLt(d, w) /\ \A x \in QuoteDistances : DLt(d, x) => DLe(w, x)
    ELSE d

PricesAtMost(q1, q2) ==
    /\ DLe(q1.min_price_netto, q2.min_price_netto)
    /\ DLe(q1.max_price_netto, q2.max_price_netto)
    /\ DLe(q1.min_price, q2.min_price)
    /\ DLe(q1.max_price, q2.max_price)

\* C30: with non-negative rates and everything else held fixed, the net and
\* gross min and max never decrease when the volume grows, nor when the
\* distance grows (stated for the next larger volume and the next larger
\* distance of the calls; the steps cross the 50 km threshold and the
\* 4-hour floor of the effort).
PriceMonotoneInVolumeAndDistance ==
    (IsQuote /\ NonNegativeRates(engine)) =>
        /\ PricesAtMost(call.ret,
               generate_quote(engine,
                   [call.args EXCEPT !.volume = NextVolume(call.args.volume)]))
        /\ PricesAtMost(call.ret,
               generate_quote(engine,
                   [call.args EXCEPT
                        !.distance_km = NextDistance(call.args.distance_km)]))

\* a quote for 20 m3 over 30 km, below the 4-hour floor and the threshold,
\* that is cheaper than the one for 45 m3 and than the one for 80 km
PriceMonotoneInVolumeAndDistance_Witness ==
    /\ IsQuote
    /\ NonNegativeRates(engine)
    /\ call.args.volume = D(20) /\ call.args.distance_km = D(30)
    /\ DLe(call.args.distance_km, engine.km_threshold)
    /\ NextVolume(call.args.volume) = D(45)
    /\ NextDistance(call.args.distance_km) = D(80)
    /\ DLt(call.ret.min_price_netto,
           generate_quote(engine, [call.args EXCEPT !.volume = D(45)]).min_price_netto)
    /\ DLt(call.ret.min_price_netto,
           generate_quote(engine,
               [call.args EXCEPT !.distance_km = D(80)]).min_price_netto)

(***************************************************************************)
(* Frame of the public operations                                          *)
(***************************************************************************)
PublicOperations ==
    {"generate_quote", "calculate_volume", "calculate_man_hours",
     "determine_crew_size", "calculate_distance_cost",
     "calculate_floor_surcharge", "calculate_services_cost",
     "calculate_heavy_item_surcharges", "get_regional_multiplier",
     "get_seasonal_multiplier", "get_weekend_holiday_surcharge"}

\* the lists of services and of items among the arguments of the call
ListsPassed ==
    [k \in DOMAIN call.args \cap {"services", "inventory"} |-> call.args[k]]

NotAsked == [status |-> "not asked"]

\* the element of a distance_matrix answer: metres and seconds (the duration
\* may be missing), an answer whose status is not OK, and an exception.
\* The seconds are multiples of 18, so that seconds / 3600 is a number of
\* hours with at most four decimals, and the metres are multiples of 75.
Responses ==
    {[status |-> "OK", distance_m |-> m, duration_s |-> t] :
         m \in {0, 30000, 150000}, t \in {None, <<0>>, <<180>>, <<5400>>}}
    \cup {[status |-> "ZERO_RESULTS"], [status |-> "raises"]}

\* the answers of geocode: a result, no result, an exception
GeocodeResponses == {"found", "empty", "raises"}

Digits == {"0", "1", "2", "3", "4", "5", "6", "7", "8", "9"}

\* lines 32-40: five characters that int() reads as 10000..99999
validate_german_postal_code(postal_code) ==
    /\ postal_code # None
    /\ Len(postal_code) = 5
    /\ \A i \in 1..5 : postal_code[i] \in Digits
    /\ postal_code[1] # "0"

geocode_key(postal_code) == <<"geocode", postal_code, "DE">>

distance_key(origin_postal, destination_postal) ==
    <<"distance", origin_postal, destination_postal>>

\* _cache[key] = value
cache_put(ms, key, value) ==
    [ms EXCEPT !._cache = [k \in DOMAIN ms._cache \cup {key} |->
                               IF k = key THEN value ELSE ms._cache[k]]]

\* lines 42-101: the place of a postal code, or None; ret is what is
\* returned and ms the service after the call
geocode_postal_code(ms, postal_code, response) ==
    LET key == geocode_key(postal_code)
        found == <<[postal_code |-> postal_code, country |-> "DE"]>>
    IN IF key \in DOMAIN ms._cache THEN [ret |-> ms._cache[key], ms |-> ms]
       ELSE IF ~ms.client THEN [ret |-> found, ms |-> cache_put(ms, key, found)]
       ELSE IF response = "found"
            THEN [ret |-> found, ms |-> cache_put(ms, key, found)]
            ELSE [ret |-> None, ms |-> ms]

\* lines 120-124 and 169-175: the route of dev mode and of a failed request
MockRoute == [distance_km |-> <<D(100)>>, duration_hours |-> <<Dec(15, 1)>>]

NoRoute == [distance_km |-> None, duration_hours |-> None]

\* lines 149-154: duration_s / 3600, None without a duration
element_hours(element) ==
    IF element.duration_s = None THEN None
    ELSE <<DDivRound(D(element.duration_s[1]), 3600, 4)>>

\* lines 157-159: the travel time at 75 km/h in place of a missing one, of
\* zero and of one under 0.1 h, for a distance above zero
with_fallback(distance_km, duration_hours) ==
    [distance_km |-> <<distance_km>>,
     duration_hours |->
         IF DLt(D(0), distance_km)
            /\ (\/ duration_hours = None
                \/ DSign(duration_hours[1]) = 0
                \/ DLt(duration_hours[1], Dec(1, 1)))
         THEN <<DDivRound(distance_km, 75, 4)>>
         ELSE duration_hours]

\* lines 144-159: kilometres and hours of an element
element_route(element) ==
    with_fallback(Dec(element.distance_m, 3), element_hours(element))

\* lines 161-167: the result is cached and returned
cached_route(ms, key, route, asked) ==
    [ret |-> route, ms |-> cache_put(ms, key, route), asked |-> asked]

\* lines 103-175; asked tells whether the provider was asked for the route
calculate_distance(ms, origin_postal, destination_postal, response) ==
    IF distance_key(origin_postal, destination_postal) \in DOMAIN ms._cache
    THEN [ret |-> ms._cache[distance_key(origin_postal, destination_postal)],
          ms |-> ms, asked |-> FALSE]
    ELSE IF ~ms.client
    THEN cached_route(ms, distance_key(origin_postal, destination_postal),
                      MockRoute, FALSE)
    ELSE IF response.status = "raises"
    THEN cached_route(ms, distance_key(origin_postal, destination_postal),
                      MockRoute, TRUE)
    ELSE IF response.status # "OK"
    THEN [ret |-> NoRoute, ms |-> ms, asked |-> TRUE]
    ELSE cached_route(ms, distance_key(origin_postal, destination_postal),
                      element_route(response), TRUE)

\* lines 195-222: o and d are the two geocode calls, c is calculate_distance
route_info_of(o, d, c) ==
    IF o.ret = None \/ d.ret = None
    THEN [ret |-> None, ms |-> d.ms, asked |-> FALSE]
    ELSE IF c.ret.distance_km = None
    THEN [ret |-> None, ms |-> c.ms, asked |-> c.asked]
    ELSE [ret |-> <<[distance_km |-> c.ret.distance_km[1],
                     duration_hours |-> c.ret.duration_hours]>>,
          ms |-> c.ms, asked |-> c.asked]

\* lines 193-201
route_from_destination(o, d, origin_postal, destination_postal, response) ==
    route_info_of(o, d, calculate_distance(d.ms, origin_postal,
                                           destination_postal, response))

\* lines 192-193
route_from_origin(o, origin_postal, destination_postal, destination_response, response) ==
    route_from_destination(o, geocode_postal_code(o.ms, destination_postal,
                                                  destination_response),
                           origin_postal, destination_postal, response)

\* lines 177-222: None, or the route between two valid, known postal codes
get_route_info(ms, origin_postal, destination_postal, origin_response, destination_response, response) ==
    IF ~validate_german_postal_code(origin_postal)
       \/ ~validate_german_postal_code(destination_postal)
    THEN [ret |-> None, ms |-> ms, asked |-> FALSE]
    ELSE route_from_origin(geocode_postal_code(ms, origin_postal, origin_response),
                           origin_postal, destination_postal,
                           destination_response, response)

(***************************************************************************)
(* api/v1/quote.py: POST /calculate and POST /submit, on the module's      *)
(* pricing_engine and maps_service.  A handler gives the response (ret),   *)
(* the arguments it called generate_quote with (quoted, None if it did     *)
(* not), the service and the database after it, and whether the provider   *)
(* was asked for the route.                                                *)
(***************************************************************************)
APARTMENT_SIZE_VOLUMES ==
    [a \in {"studio", "1br", "2br", "3br", "4br+"} |->
        IF a = "studio" THEN D(15)
        ELSE IF a = "1br" THEN D(25)
        ELSE IF a = "2br" THEN D(40)
        ELSE IF a = "3br" THEN D(60)
        ELSE D(80)]

HTTPException(status_code, detail) == [status |-> status_code, detail |-> detail]

\* x or 0, for an optional floor
or_zero(x) == IF x = None THEN 0 ELSE x[1]

\* lines 84-94: the volume of the request, None if it names none
request_volume(request) ==
    IF request.volume_m3 # None /\ DSign(request.volume_m3[1]) # 0
    THEN request.volume_m3
    ELSE IF request.apartment_size # None
         THEN <<APARTMENT_SIZE_VOLUMES[request.apartment_size[1]]>>
         ELSE None

\* lines 97-106: the arguments of generate_quote
calculate_arguments(request, volume, route) ==
    [DefaultRequest(volume, route.distance_km[1])
       EXCEPT !.travel_time_hours =
                  IF route.duration_hours = None
                     \/ DSign(route.duration_hours[1]) = 0
                  THEN D(0) ELSE route.duration_hours[1],
              !.origin_floor = or_zero(request.origin_floor),
              !.destination_floor = or_zero(request.destination_floor),
              !.services = request.services]

\* lines 97-108
quote_answer(s, c, quoted) ==
    [ret |-> [status |-> 200, quote_data |-> generate_quote(s, quoted)],
     quoted |-> <<quoted>>, ms |-> c.ms, asked |-> c.asked]

\* lines 79-108: c is the call of calculate_distance
quote_for_distance(s, request, c) ==
    IF c.ret.distance_km = None
    THEN [ret |-> HTTPException(500, "Could not calculate distance"),
          quoted |-> None, ms |-> c.ms, asked |-> c.asked]
    ELSE IF request_volume(request) = None
    THEN [ret |-> HTTPException(400, "Either volume_m3 or apartment_size must be provided"),
          quoted |-> None, ms |-> c.ms, asked |-> c.asked]
    ELSE quote_answer(s, c, calculate_arguments(request,
                                                request_volume(request)[1],
                                                c.ret))

\* lines 51-108
calculate_quote(s, ms, request, response) ==
    IF ~validate_german_postal_code(request.origin_postal_code)
    THEN [ret |-> HTTPException(400, "Invalid origin postal code"),
          quoted |-> None, ms |-> ms, asked |-> FALSE]
    ELSE IF ~validate_german_postal_code(request.destination_postal_code)
    THEN [ret |-> HTTPException(400, "Invalid destination postal code"),
          quoted |-> None, ms |-> ms, asked |-> FALSE]
    ELSE quote_for_distance(s, request,
             calculate_distance(ms, request.origin_postal_code,
                                request.destination_postal_code, response))

\* lines 121-131: the company of the request, created if there is none
default_company == <<[slug |-> "default", pricing_config |-> <<>>]>>

with_company(d) ==
    IF d.company = None THEN [d EXCEPT !.company = default_company] ELSE d

\* lines 167-189: the row of a new quote.  sent_changes is history the
\* program does not keep: how often the stored status became SENT.
new_quote == [status |-> "draft", age |-> 0, sent_changes |-> 0]

\* lines 151-160: the arguments of generate_quote; the travel time is the
\* value of route_info["duration_hours"], None included
submit_arguments(request, volume, info) ==
    [DefaultRequest(volume, info.distance_km)
       EXCEPT !.travel_time_hours =
                  IF info.duration_hours = None THEN None
                  ELSE info.duration_hours[1],
              !.origin_floor = request.origin.floor,
              !.destination_floor = request.destination.floor,
              !.origin_has_elevator = request.origin.has_elevator,
              !.destination_has_elevator = request.destination.has_elevator,
              !.services = request.services]

\* lines 151-207: generate_quote (line 319 of the engine raises TypeError
\* for None * Decimal('1.15')), and the quote stored
submit_answer(s, d, route_info, quoted) ==
    IF quoted.travel_time_hours = None
    THEN [ret |-> [status |-> 500, detail |-> "TypeError"],
          quoted |-> <<quoted>>, ms |-> route_info.ms, db |-> d,
          asked |-> route_info.asked]
    ELSE [ret |-> [status |-> 200, quote_data |-> generate_quote(s, quoted)],
          quoted |-> <<quoted>>, ms |-> route_info.ms,
          db |-> [d EXCEPT !.quotes = Append(d.quotes, new_quote)],
          asked |-> route_info.asked]

\* lines 142-207: d is the database with the company
submit_with_route(s, d, request, route_info) ==
    IF route_info.ret = None
    THEN [ret |-> HTTPException(400, "Could not calculate route"),
          quoted |-> None, ms |-> route_info.ms, db |-> d,
          asked |-> route_info.asked]
    ELSE submit_answer(s, d, route_info,
             submit_arguments(request, calculate_volume(request.inventory),
                              route_info.ret[1]))

\* lines 111-207; d is the database the handler finds
submit_quote(s, ms, d, request, origin_response, destination_response, response) ==
    submit_with_route(s, with_company(d), request,
        get_route_info(ms, request.origin.postal_code,
                       request.destination.postal_code,
                       origin_response, destination_response, response))

\* the bodies of POST /calculate: a valid and an invalid origin, a volume,
\* an apartment size, both or neither
CalculateRequests ==
    {[origin_postal_code |-> o,
      destination_postal_code |-> <<"1", "0", "1", "1", "5">>,
      apartment_size |-> a, volume_m3 |-> v,
      origin_floor |-> f, destination_floor |-> <<0>>,
      services |-> <<>>] :
        o \in {<<"8", "0", "3", "3", "1">>, <<"0", "4", "1", "0", "9">>},
        a \in {None, <<"studio">>}, v \in {None, <<D(20)>>, <<D(0)>>},
        f \in {None, <<2>>}}

Address(postal_code, floor, has_elevator) ==
    [postal_code |-> postal_code, floor |-> floor, has_elevator |-> has_elevator]

\* the bodies of POST /submit
SubmitRequests ==
    {[company_slug |-> "default",
      origin |-> Address(o, 0, FALSE),
      destination |-> Address(<<"1", "0", "1", "1", "5">>, 2, TRUE),
      inventory |-> inventory, services |-> <<>>] :
        o \in {<<"8", "0", "3", "3", "1">>, <<"0", "4", "1", "0", "9">>},
        inventory \in Inventories}

MaxQuotes == 2

QuoteIds == 1..MaxQuotes

RouteInit ==
    /\ engine = TestConfig
    /\ call = NoCall
    /\ inflight = [t \in Threads |-> Idle]
    /\ db = [quotes |-> <<>>, company |-> None]
    /\ mail = [q \in QuoteIds |-> 0]
    /\ tasks = <<>>
    /\ maps_service \in {[client |-> c, _cache |-> <<>>] : c \in BOOLEAN}

\* the step of a handler of the route endpoints that ends as out
Answer(op, request, response, out) ==
    /\ out.asked = (response # NotAsked)
    /\ call' = [op |-> op,
                args |-> [request |-> request, response |-> response],
                ret |-> out.ret, quoted |-> out.quoted]
    /\ maps_service' = out.ms

CalculateQuote ==
    \E request \in CalculateRequests, response \in Responses \cup {NotAsked} :
        /\ call = NoCall
        /\ Answer("calculate_quote", request, response,
                  calculate_quote(engine, maps_service, request, response))
        /\ UNCHANGED <<engine, inflight, db, mail, tasks>>

\* the step of submit_quote that ends as out
Stored(out) == db' = out.db

SubmitQuote ==
    \E request \in SubmitRequests, response \in Responses \cup {NotAsked},
       origin_response \in GeocodeResponses,
       destination_response \in GeocodeResponses :
        /\ call = NoCall
        /\ Len(db.quotes) < MaxQuotes
        /\ Answer("submit_quote", request, response,
                  submit_quote(engine, maps_service, db, request,
                               origin_response, destination_response, response))
        /\ Stored(submit_quote(engine, maps_service, db, request,
                               origin_response, destination_response, response))
        /\ UNCHANGED <<engine, inflight, mail, tasks>>

RouteNext ==
    \/ CalculateQuote
    \/ SubmitQuote
    \/ Return

RouteSpec == RouteInit /\ [][RouteNext]_vars

IsEndpointCall == call.op \in {"calculate_quote", "submit_quote"}

\* the request names a volume or an apartment size (POST /submit takes the
\* volume from the inventory)
HasVolume ==
    call.op = "calculate_quote" =>
        \/ call.args.request.apartment_size # None
        \/ /\ call.args.request.volume_m3 # None
           /\ DSign(call.args.request.volume_m3[1]) # 0

\* the provider answered with a distance and with no travel time, or zero
DistanceWithoutTravelTime ==
    /\ IsEndpointCall
    /\ HasVolume
    /\ call.args.response.status = "OK"
    /\ call.args.response.duration_s \in {None, <<0>>}

\* C22: when the route provider supplies a distance but a missing or zero
\* travel time, POST /calculate and POST /submit both answer with a quote
\* whose truck travel time is 0 and whose estimated duration is
\* man_hours / crew_size (to one decimal).
QuoteWithoutTravelTime ==
    DistanceWithoutTravelTime =>
        /\ call.ret.status = 200
        /\ call.ret.quote_data.breakdown.travel_time = D(0)
        /\ DLe(DAbs(DSub(DMul(call.ret.quote_data.estimated_hours,
                              D(call.ret.quote_data.breakdown.crew_size)),
                         quote_effort(engine, call.quoted[1]).man_hours)),
               DMul(Dec(5, 2), D(call.ret.quote_data.breakdown.crew_size)))



(***************************************************************************)
(* The life of a stored quote: PATCH /admin/quotes/{quote_id}              *)
(* (api/v1/admin.py, update_quote_status) and the daily clean-up           *)
(* (services/quote_service.py, auto_expire_quotes, run by main.py).  A     *)
(* quote is identified by its position in db.quotes; its age is the days   *)
(* since created_at; mail[q] counts the confirmation emails attempted for  *)
(* quote q.  The outcome of db.commit() is an input of the operation that  *)
(* calls it: "ok", "fails", or "not called".                               *)
(***************************************************************************)
QuoteStatus == {"draft", "sent", "accepted", "rejected", "expired"}

ExpiryDays == 14

\* stands for a text that uuid.UUID() does not accept
NoUuid == 0

\* the ids a request may name
RequestedIds == QuoteIds \cup {NoUuid}

\* lines 146-151: the row after a committed update
updated(quote, new_status) ==
    [quote EXCEPT !.status = new_status,
                  !.sent_changes =
                      IF new_status = "sent" /\ quote.status # "sent"
                      THEN @ + 1 ELSE @]

\* sends to every update that sets SENT, whatever the status was
update_quote_status_mailing_every_sent(d, quote_id, new_status, commit) ==
    IF quote_id \notin QuoteIds
    THEN [ret |-> HTTPException(400, "Invalid quote ID format"), db |-> d,
          sent |-> FALSE, commits |-> FALSE]
    ELSE IF quote_id > Len(d.quotes)
    THEN [ret |-> HTTPException(404, "Quote not found"), db |-> d,
          sent |-> FALSE, commits |-> FALSE]
    ELSE IF commit # "ok"
    THEN [ret |-> [status |-> 500, detail |-> "commit"], db |-> d,
          sent |-> FALSE, commits |-> TRUE]
    ELSE [ret |-> [status |-> 200, success |-> TRUE, quote_id |-> quote_id,
                   new_status |-> new_status],
          db |-> [d EXCEPT !.quotes[quote_id] = updated(@, new_status)],
          sent |-> new_status = "sent", commits |-> TRUE]

\* admin.py lines 120-166; sent tells whether send_quote_confirmation was
\* called, commits whether db.commit() was
update_quote_status(d, quote_id, new_status, commit) ==
    IF quote_id \notin QuoteIds
    THEN [ret |-> HTTPException(400, "Invalid quote ID format"), db |-> d,
          sent |-> FALSE, commits |-> FALSE]
    ELSE IF quote_id > Len(d.quotes)
    THEN [ret |-> HTTPException(404, "Quote not found"), db |-> d,
          sent |-> FALSE, commits |-> FALSE]
    ELSE IF commit # "ok"
    THEN [ret |-> [status |-> 500, detail |-> "commit"], db |-> d,
          sent |-> FALSE, commits |-> TRUE]
    ELSE LET old_status == d.quotes[quote_id].status
         IN [ret |-> [status |-> 200, success |-> TRUE, quote_id |-> quote_id,
                      new_status |-> new_status],
             db |-> [d EXCEPT !.quotes[quote_id] = updated(@, new_status)],
             sent |-> new_status = "sent" /\ old_status # "sent",
             commits |-> TRUE]

\* the query with the day of expiry itself included
expired_quotes_from_the_day(d) ==
    {q \in DOMAIN d.quotes :
        /\ d.quotes[q].status \in {"draft", "sent"}
        /\ d.quotes[q].age >= ExpiryDays}

\* quote_service.py lines 20-26: the quotes the query returns
expired_quotes(d) ==
    {q \in DOMAIN d.quotes :
        /\ d.quotes[q].status \in {"draft", "sent"}
        /\ d.quotes[q].age > ExpiryDays}

\* quote_service.py lines 14-43
auto_expire_quotes(d, commit) ==
    LET count == Cardinality(expired_quotes(d))
    IN IF count = 0 THEN [ret |-> count, db |-> d, commits |-> FALSE]
       ELSE IF commit # "ok" THEN [ret |-> 0, db |-> d, commits |-> TRUE]
       ELSE [ret |-> count,
             db |-> [d EXCEPT !.quotes =
                        [q \in DOMAIN d.quotes |->
                            IF q \in expired_quotes(d)
                            THEN [d.quotes[q] EXCEPT !.status = "expired"]
                            ELSE d.quotes[q]]],
             commits |-> TRUE]

CommitOutcomes == {"ok", "fails", "not called"}

MaxAge == 21

DaysPerStep == 7

MaxSentChanges == 2

\* the changes into SENT that were stored, over all quotes
RECURSIVE SentChanges(_)
SentChanges(quotes) ==
    IF quotes = <<>> THEN 0
    ELSE quotes[Len(quotes)].sent_changes
         + SentChanges(SubSeq(quotes, 1, Len(quotes) - 1))

\* an empty database, and the route service in dev mode
LifecycleInit ==
    /\ engine = TestConfig
    /\ call = NoCall
    /\ inflight = [t \in Threads |-> Idle]
    /\ db = [quotes |-> <<>>, company |-> None]
    /\ mail = [q \in QuoteIds |-> 0]
    /\ tasks = <<>>
    /\ maps_service = [client |-> FALSE, _cache |-> <<>>]

UpdateQuoteStatus ==
    \E quote_id \in RequestedIds, new_status \in QuoteStatus,
       commit \in CommitOutcomes :
        LET out == update_quote_status(db, quote_id, new_status, commit)
        IN /\ call = NoCall
           /\ out.commits = (commit # "not called")
           /\ SentChanges(out.db.quotes) <= MaxSentChanges
           /\ call' = [op |-> "update_quote_status",
                       args |-> [quote_id |-> quote_id,
                                 new_status |-> new_status, commit |-> commit],
                       ret |-> out.ret]
           /\ db' = out.db
           /\ mail' = IF out.sent THEN [mail EXCEPT ![quote_id] = @ + 1]
                      ELSE mail
           /\ UNCHANGED <<engine, inflight, tasks, maps_service>>

AutoExpireQuotes ==
    \E commit \in CommitOutcomes :
        LET out == auto_expire_quotes(db, commit)
        IN /\ call = NoCall
           /\ out.commits = (commit # "not called")
           /\ call' = [op |-> "auto_expire_quotes",
                       args |-> [commit |-> commit], ret |-> out.ret]
           /\ db' = out.db
           /\ UNCHANGED <<engine, inflight, mail, tasks, maps_service>>

\* the stored quotes grow older
TimePasses ==
    /\ call = NoCall
    /\ db.quotes # <<>>
    /\ \A q \in DOMAIN db.quotes : db.quotes[q].age + DaysPerStep <= MaxAge
    /\ db' = [db EXCEPT !.quotes =
                 [q \in DOMAIN db.quotes |->
                     [db.quotes[q] EXCEPT !.age = @ + DaysPerStep]]]
    /\ UNCHANGED <<engine, call, inflight, mail, tasks, maps_service>>

LifecycleNext ==
    \/ SubmitQuote
    \/ UpdateQuoteStatus
    \/ AutoExpireQuotes
    \/ TimePasses
    \/ Return

LifecycleSpec == LifecycleInit /\ [][LifecycleNext]_vars

\* the stored status of quote q becomes SENT in this step
BecomesSent(q) ==
    /\ q \in DOMAIN db.quotes
    /\ db.quotes[q].status # "sent"
    /\ db'.quotes[q].status = "sent"

\* C24: a confirmation email is attempted exactly when the stored status of
\* a quote goes from a status other than SENT to SENT: every step leaves
\* mail[q] alone or adds one to it, and adds one exactly in that case; so
\* the emails attempted for a quote number the changes of its stored status
\* into SENT, and setting SENT again or any other status sends nothing.
EmailExactlyOnChangeIntoSent ==
    /\ [][\A q \in QuoteIds :
              mail'[q] = mail[q] + (IF BecomesSent(q) THEN 1 ELSE 0)]_vars
    /\ [](\A q \in DOMAIN db.quotes : mail[q] = db.quotes[q].sent_changes)

\* a quote set to SENT a second time after it had left SENT: two emails
EmailExactlyOnChangeIntoSent_Witness ==
    /\ call.op = "update_quote_status"
    /\ call.ret.status = 200
    /\ call.args.new_status = "sent"
    /\ mail[call.args.quote_id] = 2
    /\ db.quotes[call.args.quote_id].status = "sent"

\* the quotes of the database that are due: DRAFT or SENT, and created more
\* than 14 days ago
Due(q) ==
    /\ db.quotes[q].status \in {"draft", "sent"}
    /\ db.quotes[q].age > 14

\* C27: a run of auto_expire_quotes whose commit does not fail sets every
\* due quote to EXPIRED, leaves every other status as it was and returns
\* the number of due quotes; a run whose commit fails changes no stored
\* status and returns 0.
AutoExpireSetsDueQuotes ==
    [][(call'.op = "auto_expire_quotes" /\ call.op # "auto_expire_quotes") =>
          IF call'.args.commit # "fails"
          THEN /\ DOMAIN db'.quotes = DOMAIN db.quotes
               /\ \A q \in DOMAIN db.quotes :
                      db'.quotes[q].status =
                          IF Due(q) THEN "expired" ELSE db.quotes[q].status
               /\ call'.ret = Cardinality({q \in DOMAIN db.quotes : Due(q)})
          ELSE /\ db' = db
               /\ call'.ret = 0]_vars

\* after a committed run that expired one quote and left a quote of exactly
\* 14 days alone
AutoExpireSetsDueQuotes_Witness ==
    /\ call.op = "auto_expire_quotes"
    /\ call.args.commit = "ok"
    /\ call.ret = 1
    /\ Len(db.quotes) = 2
    /\ db.quotes[1].status = "expired"
    /\ db.quotes[2].status = "draft"
    /\ db.quotes[2].age = 14


(***************************************************************************)
(* update_quote_status handled by several workers at once.  Each request   *)
(* has its own session (core/database.py, get_db) and the handler takes no *)
(* lock on the row, so between its query, its commit and its email the     *)
(* handlers of other workers may take their steps.  tasks[h] is the        *)
(* handler of worker h: the point it has reached and its local variables.  *)
(***************************************************************************)
MaxHandlers == 2

Handlers == 1..MaxHandlers

NoHandler == [pc |-> "idle", quote_id |-> NoUuid, new_status |-> "", old_status |-> ""]

\* one quote, as submit_quote stored it, and no request under way
ConcurrentUpdateInit ==
    /\ engine = TestConfig
    /\ call = NoCall
    /\ inflight = [t \in Threads |-> Idle]
    /\ db = [quotes |-> <<new_quote>>, company |-> default_company]
    /\ mail = [q \in QuoteIds |-> 0]
    /\ tasks = [h \in Handlers |-> NoHandler]
    /\ maps_service = [client |-> FALSE, _cache |-> <<>>]

\* admin.py lines 138-146: the query, and old_status = quote.status
ReadQuote(h) ==
    \E quote_id \in DOMAIN db.quotes, new_status \in QuoteStatus :
        /\ tasks[h].pc = "idle"
        /\ tasks' = [tasks EXCEPT ![h] =
                        [pc |-> "read", quote_id |-> quote_id,
                         new_status |-> new_status,
                         old_status |-> db.quotes[quote_id].status]]
        /\ UNCHANGED <<engine, call, inflight, db, mail, maps_service>>

\* admin.py lines 147-151: quote.status = new_status, db.commit()
CommitStatus(h) ==
    /\ tasks[h].pc = "read"
    /\ updated(db.quotes[tasks[h].quote_id], tasks[h].new_status).sent_changes
         <= MaxSentChanges
    /\ db' = [db EXCEPT !.quotes[tasks[h].quote_id] =
                 updated(@, tasks[h].new_status)]
    /\ tasks' = [tasks EXCEPT ![h].pc = "committed"]
    /\ UNCHANGED <<engine, call, inflight, mail, maps_service>>

\* admin.py lines 154-166: the email, decided on old_status, and the return
SendConfirmation(h) ==
    /\ tasks[h].pc = "committed"
    /\ mail' = IF tasks[h].new_status = "sent" /\ tasks[h].old_status # "sent"
               THEN [mail EXCEPT ![tasks[h].quote_id] = @ + 1]
               ELSE mail
    /\ tasks' = [tasks EXCEPT ![h] = NoHandler]
    /\ UNCHANGED <<engine, call, inflight, db, maps_service>>

ConcurrentUpdateNext ==
    \/ \E h \in Handlers : ReadQuote(h)
    \/ \E h \in Handlers : CommitStatus(h)
    \/ \E h \in Handlers : SendConfirmation(h)

ConcurrentUpdateSpec == ConcurrentUpdateInit /\ [][ConcurrentUpdateNext]_vars

\* C29: however the update_quote_status requests for a quote overlap, the
\* confirmation emails attempted for it never outnumber the changes of its
\* stored status from a status other than SENT to SENT.
OneEmailForEachChangeIntoSent ==
    \A q \in DOMAIN db.quotes : mail[q] <= db.quotes[q].sent_changes


(***************************************************************************)
(* The reload of a tenant's pricing configuration: PUT /admin/pricing      *)
(* (api/v1/admin.py, update_pricing_config) while engines are built from   *)
(* the stored map (get_pricing_engine_for_company).  A builder loads the   *)
(* company, takes its map as cfg and reads the parameters from it one      *)
(* assignment at a time; tasks[b] is the builder b: the point it has       *)
(* reached, cfg, the next assignment, the attributes set so far, and (as   *)
(* history) the maps that were stored while it was building.  A parameter  *)
(* the map does not give has the value of TestConfig.  The maps override   *)
(* rates only.                                                             *)
(***************************************************************************)
MaxBuilders == 1

Builders == 1..MaxBuilders

\* the maps a request may store: {}, and two that differ in every key
ReloadMaps ==
    {<<>>,
     [k \in {"base_rate_m3_min", "base_rate_m3_max"} |->
         IF k = "base_rate_m3_min" THEN Number(D(30)) ELSE Number(D(40))],
     [k \in {"base_rate_m3_min", "rate_km_near"} |->
         IF k = "base_rate_m3_min" THEN Number(D(28)) ELSE Number(D(3))]}

NoBuilder == [pc |-> "idle", cfg |-> <<>>, next |-> 1, attrs |-> <<>>, seen |-> {}]

\* the map stored for the company: company.pricing_config, {} without one
stored_config(task, d) ==
    IF d.company = None THEN <<>> ELSE d.company[1].pricing_config

\* the map stored when the parameter is read, in place of cfg
config_stored_at_the_read(task, d) ==
    IF d.company = None THEN <<>> ELSE d.company[1].pricing_config

\* pricing_engine.py line 50: cfg, the map the constructor was called with
loaded_config(task, d) == task.cfg

\* lines 52-98, one assignment: cfg.get(key, default), converted
parameter_value(cfg, p) ==
    IF p[2] \notin DOMAIN cfg THEN TestConfig[p[1]]
    ELSE IF p[4] = "_d" THEN _d(cfg[p[2]]).value.num
    ELSE cfg[p[2]]

\* admin.py lines 281-299
update_pricing_config(d, company_slug, pricing_config) ==
    IF d.company = None \/ d.company[1].slug # company_slug
    THEN [ret |-> HTTPException(404, "Company not found"), db |-> d]
    ELSE [ret |-> [status |-> 200, success |-> TRUE,
                   company_slug |-> company_slug],
          db |-> [d EXCEPT !.company[1].pricing_config = pricing_config]]

\* no company yet, or the company submit_quote creates
ReloadInit ==
    /\ engine = TestConfig
    /\ call = NoCall
    /\ inflight = [t \in Threads |-> Idle]
    /\ db \in {[quotes |-> <<>>, company |-> c] : c \in {None, default_company}}
    /\ mail = [q \in QuoteIds |-> 0]
    /\ tasks = [b \in Builders |-> NoBuilder]
    /\ maps_service = [client |-> FALSE, _cache |-> <<>>]

UpdatePricingConfig ==
    \E company_slug \in {"default", "other"}, pricing_config \in ReloadMaps :
        LET out == update_pricing_config(db, company_slug, pricing_config)
        IN /\ call = NoCall
           /\ call' = [op |-> "update_pricing_config",
                       args |-> [company_slug |-> company_slug,
                                 pricing_config |-> pricing_config],
                       ret |-> out.ret]
           /\ db' = out.db
           /\ tasks' = [b \in Builders |->
                           IF tasks[b].pc = "building"
                           THEN [tasks[b] EXCEPT
                                    !.seen = @ \cup {stored_config(tasks[b], out.db)}]
                           ELSE tasks[b]]
           /\ UNCHANGED <<engine, inflight, mail, maps_service>>

\* pricing_engine.py lines 412-419 and 50: the company's map becomes cfg
LoadConfig(b) ==
    /\ tasks[b].pc = "idle"
    /\ tasks' = [tasks EXCEPT ![b] =
                    [pc |-> "building", cfg |-> stored_config(tasks[b], db),
                     next |-> 1, attrs |-> <<>>,
                     seen |-> {stored_config(tasks[b], db)}]]
    /\ UNCHANGED <<engine, call, inflight, db, mail, maps_service>>

\* pricing_engine.py lines 52-98: the next assignment of __init__
ReadParameter(b) ==
    LET p == Parameters[tasks[b].next]
        value == parameter_value(loaded_config(tasks[b], db), p)
    IN /\ tasks[b].pc = "building"
       /\ tasks' = [tasks EXCEPT ![b] =
                       [@ EXCEPT
                          !.pc = IF tasks[b].next = Len(Parameters)
                                 THEN "built" ELSE "building",
                          !.next = @ + 1,
                          !.attrs = [a \in DOMAIN @ \cup {p[1]} |->
                                        IF a = p[1] THEN value
                                        ELSE tasks[b].attrs[a]]]]
       /\ UNCHANGED <<engine, call, inflight, db, mail, maps_service>>

\* the engine is used and dropped
DropEngine(b) ==
    /\ tasks[b].pc = "built"
    /\ tasks' = [tasks EXCEPT ![b] = NoBuilder]
    /\ UNCHANGED <<engine, call, inflight, db, mail, maps_service>>

ReloadNext ==
    \/ UpdatePricingConfig
    \/ \E b \in Builders : LoadConfig(b)
    \/ \E b \in Builders : ReadParameter(b)
    \/ \E b \in Builders : DropEngine(b)
    \/ Return

ReloadSpec == ReloadInit /\ [][ReloadNext]_vars

\* every attribute set so far has the value map m gives it
ValuesOf(attrs, m) ==
    \A i \in DOMAIN Parameters :
        Parameters[i][1] \in DOMAIN attrs =>
            attrs[Parameters[i][1]] = parameter_value(m, Parameters[i])

====
